---- MODULE Spec2Model ----
(***************************************************************************)
(* A model of the OTIO <-> AAF adapter: the structural simplifier of the   *)
(* reader, the writer's precheck / mob-id resolution / mob deduplication,  *)
(* and the read and write entry points.                                    *)
(*                                                                         *)
(* Time is a single integer edit-rate everywhere a claim does not speak    *)
(* about rates; a TimeRange is <<start, duration>> and an absent range     *)
(* (Python None) is the empty tuple.                                       *)
(***************************************************************************)
EXTENDS Integers, Sequences, FiniteSets, TLC

VARIABLES
    sPhase,     \* simplifier run: "build" | "once" | "twice"
    sKind,      \* what is handed to _simplify: "Timeline" | "Stack" | "Track"
    sWork,      \* the children of the tree under construction (outermost level)
    sDepth,     \* nesting depth built so far
    sFeat,      \* non-default attributes spent so far
    sLeaves,    \* leaves placed so far
    sOut1,      \* _simplify(T)
    sOut2,      \* _simplify(_simplify(T))
    wPhase,     \* write_to_file: "build" | "pre" | "validate" | "gather" |
                \*   "tracks" | "timecode" | "post" | "closed" | "raised";
                \*   "read" once the written file has been read back
    wTl,        \* the timeline handed to write_to_file: a sequence of tracks
    wOpt,       \* the keyword arguments and the registered hooks
    wDev,       \* unusual inputs spent so far
    wErr,       \* the exception that left write_to_file, "none" if none
    wAt,        \* the step an exception was raised in, "none" without one
    wLines,     \* the lines of that exception's message
    wIds,       \* AAFFileTranscriber._clip_mob_ids_map: clip -> mob ID
    wMaster,    \* AAFFileTranscriber._unique_mastermobs: mob ID -> mob
    wTape,      \* AAFFileTranscriber._unique_tapemobs: mob ID -> mob
    wMobs,      \* aaf_file.content.mobs, in the order of creation
    wSlots,     \* the slots of the composition mob
    wPos,       \* the child the track loop is at: <<track, child>>
    wRead,      \* what read_from_file makes of the file that was written
    rPhase,     \* read_from_file: "idle" | "pre" | "transcribe" | "fix" |
                \*   "markers" | "simplify" | "returned" | "raised"
    rMobs,      \* the mobs of the file in the order _transcribe reaches them
    rOpt,       \* the arguments of the read and the step of it that raises
    rPos,       \* how many of the mobs are transcribed
    rCache,     \* _MOB_TIMELINE_CACHE: mob ID -> the read that filled it in
    rErr,       \* the exception that left read_from_file, "none" if none
    rReads,     \* the calls of read_from_file so far
    hPhase,     \* hook run: "idle" | "registered" | "done"
    hReg,       \* the OTIO hook registry: hook name -> what its script does
    hPoint,     \* the extension point the adapter has reached
    hOut,       \* what the run of that extension point gave
    tPhase,     \* _transcribe of one component: "idle" | "open" | "done"
    tItem,      \* the component of the file that is transcribed
    tOut,       \* what _transcribe gave: the exception and the result
    ePhase,     \* effect of an OperationGroup: "idle" | "open" | "done"
    eGroup,     \* the OperationGroup: its operation, parameters and length
    eOut,       \* the exception and the effect of the OperationGroup
    mPhase,     \* _attach_markers: "idle" | "open" | "done"; for a master
                \*   mob "mob" | "mob_done"; "unattached" without the pass
    mIn,        \* the timeline before the pass
    mOut,       \* the timeline after the pass, and the exception that left it
    fPhase,     \* read of a mob graph: "idle" | "pre" | "transcribe" | "fix" |
                \*   "markers" | "simplify" | "returned" | "raised"
    fFile,      \* the mobs of the content storage: class, usage, references
    fOpt,       \* the keyword arguments attach_markers and simplify
    fTop,       \* mobs_to_transcribe
    fPos,       \* how many of mobs_to_transcribe are transcribed
    fStack,     \* the calls of _transcribe on composition mobs under way
    fCache,     \* the keys of _MOB_TIMELINE_CACHE
    fCount,     \* mob ID -> the times the mob was transcribed in this read
    fLog,       \* the steps of read_from_file that have run, in order
    fOut,       \* the exception that left the read and the value returned
    pPhase,     \* a pass over a tree: "idle" | "open" | "fixed" |
                \*   "stackified" | "tagged" | "simplified"
    pIn,        \* the timeline before the pass
    pOut        \* the exception that left the pass and the timeline after it

sVars == <<sPhase, sKind, sWork, sDepth, sFeat, sLeaves, sOut1, sOut2>>

wVars == <<wPhase, wTl, wOpt, wDev, wErr, wAt, wLines, wIds, wMaster, wTape,
           wMobs, wSlots, wPos, wRead>>

rVars == <<rPhase, rMobs, rOpt, rPos, rCache, rErr, rReads>>

hVars == <<hPhase, hReg, hPoint, hOut>>

tVars == <<tPhase, tItem, tOut>>

eVars == <<ePhase, eGroup, eOut>>

mVars == <<mPhase, mIn, mOut>>

fVars == <<fPhase, fFile, fOpt, fTop, fPos, fStack, fCache, fCount, fLog, fOut>>

pVars == <<pPhase, pIn, pOut>>

\* The variables of the parts that stand beside simplifier, writer and reader.
xVars == <<hVars, tVars, eVars, mVars, fVars, pVars>>

vars == <<sVars, wVars, rVars, xVars>>

----------------------------------------------------------------------------
(* Bounds of the simplifier inputs.                                        *)
MaxDepth == 4
MaxWidth == 3
MaxFeat == 1
MaxLeaves == 2

(* Bounds of the timelines handed to write_to_file.                        *)
MaxTracks == 2
MaxItems == 2
MaxDev == 1

(* Bounds of the files handed to read_from_file.                           *)
MaxReads == 3
MaxMobs == 3

(* Bound of the components handed to _transcribe.                          *)
MaxLength == 3

(* Bounds of the control points of a time warp.                            *)
MaxPoints == 3
MaxValue == 2

(* Bound of the times of the markers of a timeline.                        *)
MaxTime == 4

----------------------------------------------------------------------------
(* The composition tree (opentimelineio schema objects).                   *)

NoRange == <<>>

Seq1(x) == <<x>>

Max(a, b) == IF a >= b THEN a ELSE b

\* An object with every default the schema constructors give.
Node(t, ch) ==
    [type |-> t, ch |-> ch, fx |-> <<>>, mk |-> <<>>, en |-> TRUE,
     cls |-> "", uc |-> FALSE, sr |-> NoRange,
     kind |-> IF t = "Track" THEN "Video" ELSE "",
     mkind |-> "", name |-> "", inoff |-> 0, outoff |-> 0]

\* The node that stands for an exception raised while a pass was running.
Raise == Node("Raise", <<>>)

IsComposition(n) == n.type \in {"Track", "Stack"}

\* otio.core.Item: everything but a Transition.
IsItem(n) == n.type \in {"Clip", "Gap", "Track", "Stack"}

RECURSIVE HasRaise(_)
HasRaise(n) ==
    \/ n.type = "Raise"
    \/ \E i \in 1..Len(n.ch) : HasRaise(n.ch[i])

RECURSIVE SumSeq(_)
SumSeq(s) == IF s = <<>> THEN 0 ELSE Head(s) + SumSeq(Tail(s))

RECURSIVE MaxSeq(_)
MaxSeq(s) == IF s = <<>> THEN 0 ELSE Max(Head(s), MaxSeq(Tail(s)))

\* Item.duration(): the source range's duration, else the available range's
\* (Track: the sum over the non-transition children plus the offsets of a
\* leading / trailing transition; Stack: the longest child).
RECURSIVE Dur(_)
Dur(n) ==
    IF n.type = "Transition" THEN n.inoff + n.outoff
    ELSE IF n.sr # NoRange THEN n.sr[2]
    ELSE IF n.type = "Track" THEN
        SumSeq([i \in 1..Len(n.ch) |->
                   IF n.ch[i].type = "Transition" THEN 0 ELSE Dur(n.ch[i])])
        + (IF Len(n.ch) > 0 /\ n.ch[1].type = "Transition"
              THEN n.ch[1].inoff ELSE 0)
        + (IF Len(n.ch) > 0 /\ n.ch[Len(n.ch)].type = "Transition"
              THEN n.ch[Len(n.ch)].outoff ELSE 0)
    ELSE IF n.type = "Stack" THEN
        MaxSeq([i \in 1..Len(n.ch) |-> Dur(n.ch[i])])
    ELSE 0

\* Item.trimmed_range(): the source range, else the available range.
trimmed_range(n) == IF n.sr # NoRange THEN n.sr ELSE <<0, Dur(n)>>

\* Track.range_of_child_at_index: the durations of the items before the
\* child, a transition reaching back by its in_offset.
StartInTrack(track, i) ==
    SumSeq([j \in 1..(i - 1) |->
               IF track.ch[j].type = "Transition" THEN 0
               ELSE Dur(track.ch[j])])
    - (IF track.ch[i].type = "Transition" THEN track.ch[i].inoff ELSE 0)

range_of_child(track, i) == <<StartInTrack(track, i), Dur(track.ch[i])>>

EndOf(r) == r[1] + r[2]

\* TimeRange.intersects(TimeRange) and TimeRange.contains(TimeRange) of
\* opentime: both are strict comparisons of the end points.
intersects(a, b) == a[1] < EndOf(b) /\ EndOf(a) > b[1]

contains_range(a, b) == b[1] > a[1] /\ EndOf(b) < EndOf(a)

\* TimeRange.contains(RationalTime).
contains_time(a, t) == a[1] <= t /\ t < EndOf(a)

----------------------------------------------------------------------------
(* otio.algorithms.track_trimmed_to_range, as the simplifier uses it.       *)

\* What the trim range cuts off the head and the tail of a child's range.
HeadCut(r, cr) == IF r[1] > cr[1] THEN r[1] - cr[1] ELSE 0

TailCut(r, cr) == IF EndOf(r) < EndOf(cr) THEN EndOf(cr) - EndOf(r) ELSE 0

TrimmedSourceRange(tr, r, cr) ==
    <<tr[1] + HeadCut(r, cr), tr[2] - HeadCut(r, cr) - TailCut(r, cr)>>

\* One child of the copied track, of range cr in the track, against the
\* trim range: dropped (<<>>), kept untouched, or given the trimmed source
\* range.  A transition that is only partly inside raises
\* CannotTrimTransitionsError.
TrimmedChild(c, cr, r) ==
    IF ~intersects(r, cr) THEN <<>>
    ELSE IF contains_range(r, cr) THEN <<c>>
    ELSE IF c.type = "Transition" THEN <<Raise>>
    ELSE <<[c EXCEPT !.sr = TrimmedSourceRange(trimmed_range(c), r, cr)]>>

TrimChild(track, i, r) ==
    TrimmedChild(track.ch[i], range_of_child(track, i), r)

RECURSIVE Flat(_)
Flat(ss) == IF ss = <<>> THEN <<>> ELSE Head(ss) \o Flat(Tail(ss))

track_trimmed_to_range(track, r) ==
    [track EXCEPT !.ch = Flat([i \in 1..Len(track.ch) |-> TrimChild(track, i, r)])]

----------------------------------------------------------------------------
(* The helpers of _simplify.                                               *)

_valuable_metadata_never(thing) == FALSE

_valuable_metadata(thing) == thing.cls = "CompositionMob" /\ thing.uc

_has_effects(thing) == IsItem(thing) /\ Len(thing.fx) > 0

_has_time_effect(thing) == \E i \in 1..Len(thing.fx) : thing.fx[i] = "timewarp"

\* A Track is looked at alone, a Stack child by child; find_children with
\* shallow_search looks at the direct children only.
_has_transitions(thing) ==
    LET tracks == IF thing.type = "Track" THEN <<thing>> ELSE thing.ch
    IN  \E i \in 1..Len(tracks) :
            \E j \in 1..Len(tracks[i].ch) : tracks[i].ch[j].type = "Transition"

_track_item_can_flatten(thing) ==
    IF thing.type # "Track" THEN FALSE
    ELSE IF _valuable_metadata(thing) THEN FALSE
    ELSE IF Len(thing.ch) = 1 THEN TRUE
    ELSE IF _has_effects(thing) THEN FALSE
    ELSE IF _has_transitions(thing) THEN FALSE
    ELSE TRUE

_stack_item_can_be_flatten(thing) ==
    IF _has_effects(thing) \/ _valuable_metadata(thing) THEN FALSE
    ELSE IF thing.type = "Stack" THEN TRUE
    ELSE IF thing.type = "Track" THEN
        IF Len(thing.ch) # 1 THEN FALSE
        ELSE IF thing.ch[1].type # "Stack" THEN FALSE
        ELSE IF _has_effects(thing.ch[1]) \/ _valuable_metadata(thing.ch[1])
            THEN FALSE
        ELSE TRUE
    ELSE FALSE

\* A marker is <<id, start of its marked range>>.  A thing without a source
\* range that carries a marker makes source_range.contains fail.
_trim_markers(thing) ==
    IF thing.type = "Transition" THEN Raise
    ELSE IF thing.mk = <<>> THEN thing
    ELSE IF thing.sr = NoRange THEN Raise
    ELSE [thing EXCEPT !.mk =
            SelectSeq(thing.mk, LAMBDA m : contains_time(thing.sr, m[2]))]

_fix_time_effect_duration(thing, source_range) ==
    IF source_range = NoRange THEN thing
    ELSE IF thing.sr = NoRange THEN Raise
    ELSE [thing EXCEPT !.sr = <<thing.sr[1], source_range[2]>>]

_transcribe_media_kind(media_kind) ==
    IF media_kind = "Picture" THEN "Video"
    ELSE IF media_kind \in {"SoundMasterTrack", "Sound"} THEN "Audio"
    ELSE IF media_kind = "Timecode" THEN "AAF_Timecode"
    ELSE "AAF_Other"

\* A faulty variant of _ensure_stack_tracks: the children are left as they are.
_ensure_stack_tracks_skipped(thing) == thing

\* Every child that is not a Track is put into a new Track, in place.
_ensure_stack_tracks(thing) ==
    IF thing.type # "Stack" THEN thing
    ELSE [thing EXCEPT !.ch =
            [i \in 1..Len(thing.ch) |->
                LET child == thing.ch[i] IN
                IF child.type = "Track" THEN child
                ELSE [Node("Track", <<child>>) EXCEPT
                        !.kind = IF child.mkind # ""
                                    THEN _transcribe_media_kind(child.mkind)
                                    ELSE "Video",
                        !.name = child.name]]]

\* ptype is the type of thing.parent() ("None" when there is none) and
\* gnone says that thing.parent().parent() is None.
_is_redundant_container(thing, ptype, gnone) ==
    IF ~IsComposition(thing) THEN FALSE
    ELSE IF Len(thing.ch) # 1 THEN FALSE
    ELSE IF _valuable_metadata(thing) THEN FALSE
    ELSE
        LET am_top_level_track ==
                thing.type = "Track" /\ ptype = "Stack" /\ gnone
        IN  \/ ~am_top_level_track
            \/ (thing.type = "Track" /\ thing.ch[1].type = "Track")

RECURSIVE _contains_something_valuable(_)
_contains_something_valuable(thing) ==
    IF IsItem(thing) /\ (Len(thing.fx) > 0 \/ Len(thing.mk) > 0) THEN TRUE
    ELSE IF _valuable_metadata(thing) THEN TRUE
    ELSE IF IsComposition(thing) THEN
        \E i \in 1..Len(thing.ch) : _contains_something_valuable(thing.ch[i])
    ELSE IF thing.type = "Gap" THEN FALSE
    ELSE TRUE

----------------------------------------------------------------------------
(* _simplify.  The code rewrites the tree in place and returns either the  *)
(* rewritten object or a copy of its only child; SimplifiedInPlace is the  *)
(* object after the rewriting, _simplify the returned value.               *)

Splice(s, c, items) == SubSeq(s, 1, c - 1) \o items \o SubSeq(s, c + 1, Len(s))

\* A nested track that has a source range is trimmed to it first.
TrimmedToSourceRange(child) ==
    IF child.sr # NoRange THEN track_trimmed_to_range(child, child.sr)
    ELSE child

\* The only child of a nested track takes the track's effects; one that
\* has a time effect takes the duration of the track's source range.
WithEffectsOf(first, child) ==
    IF IsItem(first) THEN [first EXCEPT !.fx = @ \o child.fx] ELSE Raise

WithFixedDuration(first, child) ==
    IF first.type # "Raise" /\ _has_time_effect(first)
        THEN _fix_time_effect_duration(first, child.sr)
        ELSE first

children_of_child(child) ==
    IF Len(child.ch) = 1
        THEN <<WithFixedDuration(WithEffectsOf(child.ch[1], child), child)>>
        ELSE child.ch

\* The while loop over a Track's children, from the last to the first.
RECURSIVE FlattenTrack(_, _)

FlattenTrackChild(thing, c, child) ==
    FlattenTrack(
        [thing EXCEPT !.ch = Splice(@, c, children_of_child(child)),
                      !.mk = @ \o child.mk,
                      !.en = @ /\ child.en],
        c + Len(child.ch) - 1)

FlattenTrack(thing, c) ==
    IF c < 1 THEN thing
    ELSE IF ~_track_item_can_flatten(thing.ch[c])
        THEN FlattenTrack(thing, c - 1)
    ELSE FlattenTrackChild(thing, c, TrimmedToSourceRange(thing.ch[c]))

\* "remove empty children of Stacks".
RemoveEmptyChildren(thing) ==
    [thing EXCEPT !.ch = SelectSeq(@, _contains_something_valuable)]

\* "Look for Stacks within Stacks".
RECURSIVE FlattenStack(_, _)

FlattenStackChild(thing, c, child) ==
    FlattenStack(
        [thing EXCEPT !.ch = Splice(@, c, child.ch),
                      !.mk = @ \o child.mk,
                      !.en = @ /\ child.en],
        c + Len(child.ch) - 1)

FlattenStack(thing, c) ==
    IF c < 1 THEN thing
    ELSE IF ~_stack_item_can_be_flatten(thing.ch[c])
        THEN FlattenStack(thing, c - 1)
    ELSE FlattenStackChild(thing, c,
             IF thing.ch[c].type = "Track" THEN thing.ch[c].ch[1]
             ELSE thing.ch[c])

\* "trim stack tracks if stack has a source_range set".
WithTrimmedMarkers(track) ==
    [track EXCEPT !.ch = [j \in 1..Len(track.ch) |->
                             _trim_markers(track.ch[j])]]

TrimStackTracks(thing) ==
    IF thing.sr # NoRange /\ ~_has_transitions(thing) THEN
        [thing EXCEPT
            !.ch = [i \in 1..Len(thing.ch) |->
                      WithTrimmedMarkers(
                          track_trimmed_to_range(thing.ch[i], thing.sr))],
            !.sr = <<0, thing.sr[2]>>]
    ELSE thing

\* "skip redundant containers": the copy of the only child that is returned
\* takes the container's enabled flag, markers and effects, and its source
\* range moves into the container's.
WithAttributesOf(r, thing) ==
    [r EXCEPT !.en = IF ~thing.en THEN FALSE ELSE @,
              !.mk = @ \o thing.mk,
              !.fx = @ \o thing.fx]

WithinSourceRange(r, sr) ==
    IF sr = NoRange THEN r
    ELSE [r EXCEPT !.sr = <<trimmed_range(r)[1] + sr[1], sr[2]>>]

RedundantResult(thing) ==
    IF ~IsItem(thing.ch[1]) THEN Raise
    ELSE WithinSourceRange(WithAttributesOf(thing.ch[1], thing), thing.sr)

RECURSIVE _simplify(_, _, _)
RECURSIVE SimplifiedInPlace(_, _)

\* The rewriting of a composition whose children are simplified already:
\* a Track splices its nested tracks in, a Stack drops its empty children,
\* splices its nested stacks in, wraps its items in tracks and trims them.
FlattenAll(thing) == FlattenStack(thing, Len(thing.ch))

InPlaceRewrite(thing) ==
    IF thing.type = "Track" THEN FlattenTrack(thing, Len(thing.ch))
    ELSE TrimStackTracks(_ensure_stack_tracks(
             FlattenAll(RemoveEmptyChildren(thing))))

\* A faulty variant of the rewriting: the children are not simplified first.
SimplifiedInPlace_shallow(thing, ptype) ==
    IF ~IsComposition(thing) \/ Len(thing.ch) = 0 THEN thing
    ELSE InPlaceRewrite(thing)

SimplifiedInPlace(thing, ptype) ==
    IF ~IsComposition(thing) \/ Len(thing.ch) = 0 THEN thing
    ELSE InPlaceRewrite(
             [thing EXCEPT !.ch =
                 [i \in 1..Len(thing.ch) |->
                    _simplify(thing.ch[i], thing.type, ptype = "None")]])

\* What becomes of a composition rewritten in place: a redundant one gives
\* way to its only child, a root Stack keeps tracks only.
SimplifiedComposition(t, ptype, gnone) ==
    IF _is_redundant_container(t, ptype, gnone) THEN RedundantResult(t)
    ELSE IF t.type = "Stack" /\ ptype = "None" THEN _ensure_stack_tracks(t)
    ELSE t

\* A timeline whose tracks simplify to a Stack takes it, and otherwise
\* keeps its own stack, rewritten in place.
SimplifiedTimeline(thing, result) ==
    IF result.type = "Stack" THEN [thing EXCEPT !.ch = <<result>>]
    ELSE [thing EXCEPT !.ch = <<SimplifiedInPlace(thing.ch[1], "None")>>]

_simplify(thing, ptype, gnone) ==
    IF thing.type = "Collection" THEN
        IF Len(thing.ch) = 0 THEN thing
        ELSE IF Len(thing.ch) = 1 THEN _simplify(thing.ch[1], "None", FALSE)
        ELSE [thing EXCEPT !.ch = [i \in 1..Len(thing.ch) |->
                                      _simplify(thing.ch[i], "None", FALSE)]]
    ELSE IF thing.type = "Timeline" THEN
        SimplifiedTimeline(thing, _simplify(thing.ch[1], "None", FALSE))
    ELSE IF IsComposition(thing) THEN
        IF Len(thing.ch) = 0 THEN thing
        ELSE SimplifiedComposition(SimplifiedInPlace(thing, ptype),
                                   ptype, gnone)
    ELSE thing

----------------------------------------------------------------------------
(* The inputs of the simplifier: trees as the reader builds them.  Every   *)
(* Clip and Gap carries a source range (advanced_authoring_format.py:463,  *)
(* 531, 690, 783) and a Transition stands between two items.               *)

Clip(name, start, dur) ==
    [Node("Clip", <<>>) EXCEPT !.name = name, !.sr = <<start, dur>>,
                               !.mkind = "Picture"]

Gap(dur) == [Node("Gap", <<>>) EXCEPT !.sr = <<0, dur>>]

Transition(i, o) == [Node("Transition", <<>>) EXCEPT !.inoff = i, !.outoff = o]

PlainLeaves == {Clip("A", 0, 2), Gap(1)}

\* The attribute changes that cost one feature each.
Features == {"effect", "timewarp", "marker", "disabled", "comments",
             "range01", "range12"}

WithFeature(n, f) ==
    CASE f = "none"     -> n
      [] f = "effect"   -> [n EXCEPT !.fx = @ \o <<"effect">>]
      [] f = "timewarp" -> [n EXCEPT !.fx = @ \o <<"timewarp">>]
      [] f = "marker"   -> [n EXCEPT !.mk = @ \o << <<"m", 1>> >>]
      [] f = "disabled" -> [n EXCEPT !.en = FALSE]
      [] f = "comments" -> [n EXCEPT !.cls = "CompositionMob", !.uc = TRUE]
      [] f = "range01"  -> [n EXCEPT !.sr = <<0, 1>>]
      [] f = "range12"  -> [n EXCEPT !.sr = <<1, 2>>]

LeafFeatures == {"effect", "timewarp", "marker", "disabled"}

Timeline(root) == Node("Timeline", <<root>>)

Collection(items) == Node("Collection", items)

\* The object handed to _simplify for a finished build.
SimplifyInput(kind, work) ==
    CASE kind = "Timeline"   -> Timeline(Node("Stack", work))
      [] kind = "RootStack"  -> Timeline(work[1])
      [] kind = "Collection" -> Collection(<<Timeline(Node("Stack", work))>>)
      [] kind = "Stack"      -> work[1]
      [] kind = "Track"      -> work[1]

InputKinds == {"Timeline", "RootStack", "Collection", "Stack", "Track"}

KindFits(kind, work) ==
    CASE kind \in {"Timeline", "Collection"} -> TRUE
      [] kind \in {"RootStack", "Stack"} ->
            Len(work) = 1 /\ work[1].type = "Stack"
      [] kind = "Track" -> Len(work) = 1 /\ work[1].type = "Track"

SInit ==
    /\ sPhase = "build"
    /\ sKind = "none"
    /\ sWork = <<>>
    /\ sDepth = 0
    /\ sFeat = 0
    /\ sLeaves = 0
    /\ sOut1 = Raise
    /\ sOut2 = Raise

AddLeaf ==
    /\ sPhase = "build"
    /\ Len(sWork) < MaxWidth
    /\ sLeaves < MaxLeaves
    /\ sLeaves' = sLeaves + 1
    /\ \E leaf \in PlainLeaves, f \in LeafFeatures \cup {"none"}, front \in BOOLEAN :
        /\ f # "none" => sFeat < MaxFeat
        /\ front => leaf.type = "Gap" /\ f = "none"
        /\ sFeat' = IF f = "none" THEN sFeat ELSE sFeat + 1
        /\ sWork' = IF front THEN <<WithFeature(leaf, f)>> \o sWork
                    ELSE Append(sWork, WithFeature(leaf, f))
    /\ UNCHANGED <<sPhase, sKind, sDepth, sOut1, sOut2>>

\* A transition and the item after it, behind an item.
AddTransition ==
    /\ sPhase = "build"
    /\ 1 <= Len(sWork) /\ Len(sWork) + 2 <= MaxWidth
    /\ IsItem(sWork[Len(sWork)])
    /\ sLeaves < MaxLeaves
    /\ sLeaves' = sLeaves + 1
    /\ sWork' = sWork \o <<Transition(1, 1), Clip("B", 1, 3)>>
    /\ UNCHANGED <<sPhase, sKind, sDepth, sFeat, sOut1, sOut2>>

\* The children built so far become one Track or Stack.  A Track is the
\* only composition that holds a Transition.
Wrap ==
    /\ sPhase = "build"
    /\ sDepth < MaxDepth
    /\ \E t \in {"Track", "Stack"}, f \in Features \cup {"none"} :
        /\ f # "none" => sFeat < MaxFeat
        /\ t = "Stack" =>
              \A i \in 1..Len(sWork) : sWork[i].type # "Transition"
        /\ sFeat' = IF f = "none" THEN sFeat ELSE sFeat + 1
        /\ sWork' = <<WithFeature(Node(t, sWork), f)>>
    /\ sDepth' = sDepth + 1
    /\ UNCHANGED <<sPhase, sKind, sLeaves, sOut1, sOut2>>

\* A transition lies in a Track: the children of a root stack built around
\* the work are checked like those of any other Stack.
Simplify ==
    /\ sPhase = "build"
    /\ \E kind \in InputKinds :
        /\ KindFits(kind, sWork)
        /\ kind \in {"Timeline", "Collection"} =>
              \A i \in 1..Len(sWork) : sWork[i].type # "Transition"
        /\ sKind' = kind
        /\ sOut1' = _simplify(SimplifyInput(kind, sWork), "None", FALSE)
    /\ sPhase' = "once"
    /\ UNCHANGED <<sWork, sDepth, sFeat, sLeaves, sOut2>>

SimplifyAgain ==
    /\ sPhase = "once"
    /\ ~HasRaise(sOut1)
    /\ sOut2' = _simplify(sOut1, "None", FALSE)
    /\ sPhase' = "twice"
    /\ UNCHANGED <<sKind, sWork, sDepth, sFeat, sLeaves, sOut1>>

SNext ==
    \/ AddLeaf /\ UNCHANGED <<wVars, rVars, xVars>>
    \/ AddTransition /\ UNCHANGED <<wVars, rVars, xVars>>
    \/ Wrap /\ UNCHANGED <<wVars, rVars, xVars>>
    \/ Simplify /\ UNCHANGED <<wVars, rVars, xVars>>
    \/ SimplifyAgain /\ UNCHANGED <<wVars, rVars, xVars>>

----------------------------------------------------------------------------
(* The timeline handed to write_to_file.  A track is [kind, ch]; a child   *)
(* is a Clip, a Gap or a Transition.  A mob ID is a positive number, and 0 *)
(* stands for an absent (or empty) metadata value.  A rate of 0 stands for *)
(* a value the object cannot give (the attribute access raises).           *)

TicksPerSecond == 600

\* A child with every attribute the writer looks at.
WChild(t) ==
    [type |-> t, name |-> "",
     ref |-> "", gkind |-> "", suffix |-> "",
     sid |-> 0, rmob |-> 0, rsid |-> 0, fmob |-> 0,
     sr |-> NoRange, ar |-> NoRange,
     rate |-> 24, ard |-> 0, ars |-> 0,
     tmeta |-> {}, ttype |-> "", cut |-> 0]

\* A clip on an ExternalReference with an available range.
WClip(sid, rmob, rsid, fmob, sr, ar) ==
    [WChild("Clip") EXCEPT !.ref = "external", !.suffix = IF fmob # 0 THEN "aaf" ELSE "mov",
                           !.sid = sid, !.rmob = rmob, !.rsid = rsid,
                           !.fmob = fmob, !.sr = sr, !.ar = ar,
                           !.ard = 24, !.ars = 24]

\* A clip on a GeneratorReference.
WGenerator(kind) ==
    [WChild("Clip") EXCEPT !.ref = "generator", !.gkind = kind,
                           !.sr = <<0, 2>>, !.ar = <<0, 2>>,
                           !.ard = 24, !.ars = 24]

WGap(dur) == [WChild("Gap") EXCEPT !.sr = <<0, dur>>]

TransitionKeys ==
    {"PointList", "DataDefinitionName", "Description", "Name", "CutPoint"}

WTransition ==
    [WChild("Transition") EXCEPT !.tmeta = TransitionKeys,
                                 !.ttype = "SMPTE_Dissolve", !.sr = <<0, 2>>,
                                 !.cut = 1]

\* timeline.find_children(): every track followed by its children.
RECURSIVE find_children(_)
find_children(tracks) ==
    IF tracks = <<>> THEN <<>>
    ELSE <<[WChild("Track") EXCEPT !.name = Head(tracks).kind]>>
         \o Head(tracks).ch \o find_children(Tail(tracks))

\* duration(): the source range's duration, else the available range's;
\* <<ticks, rate>>, and rate 0 when it cannot be computed.
WDuration(child) ==
    IF child.type = "Transition" THEN <<child.sr[2] * (TicksPerSecond \div child.rate), child.rate>>
    ELSE IF child.sr # NoRange THEN
        IF child.rate = 0 THEN <<0, 0>>
        ELSE <<child.sr[2] * (TicksPerSecond \div child.rate), child.rate>>
    ELSE IF child.ar # NoRange /\ child.ard # 0 THEN
        <<child.ar[2] * (TicksPerSecond \div child.ard), child.ard>>
    ELSE <<0, 0>>

\* Track.duration(): the items' durations added up, starting from 0 at
\* rate 1; the sum takes the higher rate.
RECURSIVE TrackDuration(_, _)
TrackDuration(ch, acc) ==
    IF ch = <<>> \/ acc[2] = 0 THEN acc
    ELSE IF Head(ch).type = "Transition" THEN TrackDuration(Tail(ch), acc)
    ELSE LET d == WDuration(Head(ch))
         IN  IF d[2] = 0 THEN <<0, 0>>
             ELSE TrackDuration(Tail(ch), <<acc[1] + d[1], Max(acc[2], d[2])>>)

\* Timeline.duration(): the longest track, the earlier one on a tie.
RECURSIVE StackDuration(_, _)
StackDuration(tracks, acc) ==
    IF tracks = <<>> \/ acc[2] = 0 THEN acc
    ELSE LET d == TrackDuration(Head(tracks).ch, <<0, 1>>)
         IN  IF d[2] = 0 THEN <<0, 0>>
             ELSE StackDuration(Tail(tracks), IF acc[1] < d[1] THEN d ELSE acc)

TimelineDuration(tracks) == StackDuration(tracks, <<0, 1>>)

----------------------------------------------------------------------------
(* aaf_writer.validate_metadata and the __check helper.                    *)

\* The value a token path leads to on an object, 0 when following it raises.
Lookup(obj, tokenpath) ==
    IF tokenpath = "duration().rate" THEN
        IF obj.type = "Timeline" THEN TimelineDuration(obj.tracks)[2]
        ELSE WDuration(obj)[2]
    ELSE IF tokenpath = "media_reference.available_range.duration.rate" THEN
        IF obj.ar = NoRange THEN 0 ELSE obj.ard
    ELSE IF tokenpath = "media_reference.available_range.start_time.rate" THEN
        IF obj.ar = NoRange THEN 0 ELSE obj.ars
    ELSE IF tokenpath \in obj.tmeta THEN 1
    ELSE 0

\* __check(obj, tokenpath): the value found and the error lines so far.
\* `where` says which object of the timeline the check is about.
__check(where, obj, tokenpath) ==
    LET v == Lookup(obj, tokenpath)
    IN  [where |-> where, tokenpath |-> tokenpath, value |-> v,
         errors |-> IF v = 0 THEN << <<where, tokenpath, "does not exist">> >>
                    ELSE <<>>]

\* __check.equals(val).
equals(check, val) ==
    IF check.value # 0 /\ check.value # val
        THEN [check EXCEPT !.errors =
                 Append(@, <<check.where, check.tokenpath, "not equal">>)]
        ELSE check

\* "yes", "no", or "raise" for the NotSupportedError of a generator
\* reference that is not a Slug.
_is_considered_gap(thing) ==
    IF thing.type = "Gap" THEN "yes"
    ELSE IF thing.type = "Clip" /\ thing.ref = "generator" THEN
        IF thing.gkind \in {"Slug"} THEN "yes" ELSE "raise"
    ELSE "no"

\* The checks validate_metadata collects for one child.
ChildChecks(where, child, edit_rate) ==
    LET gap == IF _is_considered_gap(child) = "yes"
                  THEN <<equals(__check(where, child, "duration().rate"), edit_rate)>>
                  ELSE <<>>
        clip == IF child.type = "Clip" THEN
                    <<equals(__check(where, child, "duration().rate"), edit_rate),
                      equals(__check(where, child,
                          "media_reference.available_range.duration.rate"), edit_rate),
                      equals(__check(where, child,
                          "media_reference.available_range.start_time.rate"), edit_rate)>>
                ELSE gap
    IN  IF child.type = "Transition" THEN
            <<equals(__check(where, child, "duration().rate"), edit_rate),
              __check(where, child, "PointList"),
              __check(where, child, "DataDefinitionName"),
              __check(where, child, "Description"),
              __check(where, child, "Name"),
              __check(where, child, "CutPoint")>>
        ELSE clip

RECURSIVE AllErrors(_)
AllErrors(checks) ==
    IF checks = <<>> THEN <<>> ELSE Head(checks).errors \o AllErrors(Tail(checks))

\* The loop over timeline.find_children(): the checks collected, or the
\* exception of _is_considered_gap.
RECURSIVE CollectChecks(_, _, _, _)
CollectChecks(children, i, edit_rate, all_checks) ==
    IF i > Len(children) THEN [raised |-> "none", checks |-> all_checks]
    ELSE IF _is_considered_gap(children[i]) = "raise"
        THEN [raised |-> "NotSupportedError", checks |-> <<>>]
    ELSE CollectChecks(children, i + 1, edit_rate,
             all_checks \o ChildChecks(i, children[i], edit_rate))

\* A faulty variant of validate_metadata: it stops at the first failure.
validate_metadata_first_failure(tracks) ==
    LET timeline == [type |-> "Timeline", tracks |-> tracks]
        first == __check(0, timeline, "duration().rate")
        got == CollectChecks(find_children(tracks), 1, first.value, <<first>>)
        lines == AllErrors(got.checks)
    IN  IF got.raised # "none" THEN [raised |-> got.raised, lines |-> <<>>]
        ELSE IF lines # <<>>
            THEN [raised |-> "AAFValidationError", lines |-> <<Head(lines)>>]
        ELSE [raised |-> "none", lines |-> <<>>]

\* validate_metadata(timeline): the exception raised and its message lines.
validate_metadata(tracks) ==
    LET timeline == [type |-> "Timeline", tracks |-> tracks]
        first == __check(0, timeline, "duration().rate")
        edit_rate == first.value
        got == CollectChecks(find_children(tracks), 1, edit_rate, <<first>>)
        lines == AllErrors(got.checks)
    IN  IF got.raised # "none" THEN [raised |-> got.raised, lines |-> <<>>]
        ELSE IF lines # <<>> THEN [raised |-> "AAFValidationError", lines |-> lines]
        ELSE [raised |-> "none", lines |-> <<>>]

----------------------------------------------------------------------------
(* aaf_writer._gather_clip_mob_ids.                                        *)

_from_clip_metadata(clip) == clip.sid

_from_media_reference_metadata(clip) == IF clip.rmob # 0 THEN clip.rmob ELSE clip.rsid

\* The ID of the only Master mob of the .aaf file the clip points at.
_from_aaf_file(clip) ==
    IF clip.ref = "external" /\ clip.suffix = "aaf" THEN clip.fmob ELSE 0

\* MobID.new(): an ID no other mob carries; `n` tells the calls apart.
FirstNewId == 100

_generate_empty_mobid(n) == FirstNewId + n

Strategy(name, clip, n) ==
    CASE name = "_from_clip_metadata" -> _from_clip_metadata(clip)
      [] name = "_from_media_reference_metadata" -> _from_media_reference_metadata(clip)
      [] name = "_from_aaf_file" -> _from_aaf_file(clip)
      [] name = "_generate_empty_mobid" -> _generate_empty_mobid(n)

\* A faulty variant of strategies: the referenced file is never preferred.
strategies_file_last(prefer_file_mob_id, use_empty_mob_ids) ==
    IF use_empty_mob_ids
        THEN <<"_from_clip_metadata", "_from_media_reference_metadata",
               "_from_aaf_file", "_generate_empty_mobid">>
        ELSE <<"_from_clip_metadata", "_from_media_reference_metadata",
               "_from_aaf_file">>

\* The list of strategies for the keyword arguments.
strategies(prefer_file_mob_id, use_empty_mob_ids) ==
    LET s0 == <<"_from_clip_metadata", "_from_media_reference_metadata",
                "_from_aaf_file">>
        s1 == IF prefer_file_mob_id
                 THEN <<"_from_aaf_file">>
                      \o SelectSeq(s0, LAMBDA x : x # "_from_aaf_file")
                 ELSE s0
    IN  IF use_empty_mob_ids THEN Append(s1, "_generate_empty_mobid") ELSE s1

\* The first ID a strategy yields for the clip, 0 when none does.
RECURSIVE FirstMobId(_, _, _)
FirstMobId(strats, clip, n) ==
    IF strats = <<>> THEN 0
    ELSE LET mob_id == Strategy(Head(strats), clip, n)
         IN  IF mob_id # 0 THEN mob_id ELSE FirstMobId(Tail(strats), clip, n)

\* The clips of the timeline in find_clips order, as <<track, child>>.
RECURSIVE ClipPositions(_, _, _)
ClipPositions(tracks, t, i) ==
    IF t > Len(tracks) THEN <<>>
    ELSE IF i > Len(tracks[t].ch) THEN ClipPositions(tracks, t + 1, 1)
    ELSE (IF tracks[t].ch[i].type = "Clip" THEN << <<t, i>> >> ELSE <<>>)
         \o ClipPositions(tracks, t, i + 1)

\* The loop over find_clips(): the map built so far, or the exception.
RECURSIVE GatherLoop(_, _, _, _, _)
GatherLoop(tracks, clips, k, strats, clip_mob_ids) ==
    IF k > Len(clips) THEN [raised |-> "none", ids |-> clip_mob_ids]
    ELSE LET clip == tracks[clips[k][1]].ch[clips[k][2]]
             gap  == _is_considered_gap(clip)
         IN  IF gap = "raise" THEN [raised |-> "NotSupportedError", ids |-> clip_mob_ids]
             ELSE IF gap = "yes"
                 THEN GatherLoop(tracks, clips, k + 1, strats, clip_mob_ids)
             ELSE LET mob_id == FirstMobId(strats, clip, k)
                  IN  IF mob_id = 0
                         THEN [raised |-> "AAFAdapterError", ids |-> clip_mob_ids]
                         ELSE GatherLoop(tracks, clips, k + 1, strats,
                                  [p \in DOMAIN clip_mob_ids \cup {clips[k]} |->
                                      IF p = clips[k] THEN mob_id
                                      ELSE clip_mob_ids[p]])

_gather_clip_mob_ids(tracks, prefer_file_mob_id, use_empty_mob_ids) ==
    GatherLoop(tracks, ClipPositions(tracks, 1, 1), 1,
               strategies(prefer_file_mob_id, use_empty_mob_ids), <<>>)

----------------------------------------------------------------------------
(* The mobs the writer creates.  A mob is [cls, mob_id, key, slots]: key   *)
(* is the clip mob ID the mob was created for.  A slot is [slot_id, kind,  *)
(* seg] and a segment or component [type, mob, slot_id, start, length],    *)
(* where mob is the ID of the referenced mob.                              *)

Component(type, mob, slot_id, start, length) ==
    [type |-> type, mob |-> mob, slot_id |-> slot_id, start |-> start,
     length |-> length]

Slot(slot_id, kind, seg) == [slot_id |-> slot_id, kind |-> kind, seg |-> seg]

Mob(cls, mob_id, key, slots) ==
    [cls |-> cls, mob_id |-> mob_id, key |-> key, slots |-> slots]

\* The mob ID a newly created CompositionMob or SourceMob gets: unlike any
\* clip mob ID and any other new mob's.
NewMobIdBase == 200

NewMobId(mobs) == NewMobIdBase + Len(mobs)

\* media_kind and _master_mob_slot_id of the Video / Audio transcriber.
media_kind(kind) == IF kind = "Video" THEN "picture" ELSE "sound"

_master_mob_slot_id(kind) == IF kind = "Video" THEN 1 ELSE 2

\* visible_range() and available_range() of a clip.
available_range(clip) == clip.ar

visible_range(clip) == IF clip.sr # NoRange THEN clip.sr ELSE clip.ar

\* Where the mob with an ID sits in content.mobs, 0 if nowhere.
MobIndex(mobs, mob_id) ==
    IF \E i \in 1..Len(mobs) : mobs[i].mob_id = mob_id
        THEN CHOOSE i \in 1..Len(mobs) :
                /\ mobs[i].mob_id = mob_id
                /\ \A j \in 1..(i - 1) : mobs[j].mob_id # mob_id
        ELSE 0

\* A faulty variant of _unique_tapemob: the dictionary is not consulted.
_unique_tapemob_always_new(tape, mobs, mob_id, clip) ==
    [tape |-> [k \in DOMAIN tape \cup {mob_id} |->
                  IF k = mob_id THEN NewMobId(mobs) ELSE tape[k]],
     mobs |-> Append(mobs,
                Mob("TapeMob", NewMobId(mobs), mob_id,
                    <<Slot(1, "picture", Component("SourceClip", 0, 0, 0, 0)),
                      Slot(2, "timecode",
                           Component("Timecode", 0, 0, clip.ar[1], clip.ar[2]))>>)),
     mob |-> NewMobId(mobs)]

\* AAFFileTranscriber._unique_tapemob: the tape mob of the clip's mob ID,
\* created with its tape and timecode slots when the ID has none yet.
\* Gives the dictionary, content.mobs and the tape mob's own ID.
_unique_tapemob(tape, mobs, mob_id, clip) ==
    IF mob_id \in DOMAIN tape
        THEN [tape |-> tape, mobs |-> mobs, mob |-> tape[mob_id]]
        ELSE [tape |-> [k \in DOMAIN tape \cup {mob_id} |->
                           IF k = mob_id THEN NewMobId(mobs) ELSE tape[k]],
              mobs |-> Append(mobs,
                         Mob("TapeMob", NewMobId(mobs), mob_id,
                             <<Slot(1, "picture", Component("SourceClip", 0, 0, 0, 0)),
                               Slot(2, "timecode",
                                    Component("Timecode", 0, 0,
                                              clip.ar[1], clip.ar[2]))>>)),
              mob |-> NewMobId(mobs)]

\* AAFFileTranscriber._unique_mastermob: the master mob of the clip's mob
\* ID, created when the ID has none yet.
_unique_mastermob(master, mobs, mob_id) ==
    IF mob_id \in DOMAIN master
        THEN [master |-> master, mobs |-> mobs]
        ELSE [master |-> [k \in DOMAIN master \cup {mob_id} |-> mob_id],
              mobs |-> Append(mobs, Mob("MasterMob", mob_id, mob_id, <<>>))]

\* The slots of a mob with one slot added or, for a slot ID that exists,
\* its segment replaced.
PutSlot(slots, slot) ==
    IF \E i \in 1..Len(slots) : slots[i].slot_id = slot.slot_id
        THEN [i \in 1..Len(slots) |->
                 IF slots[i].slot_id = slot.slot_id THEN slot ELSE slots[i]]
        ELSE Append(slots, slot)

\* _create_tapemob, _create_filemob and _create_mastermob for one clip:
\* the tape mob gets an empty slot, a new file mob points at that slot and
\* the master mob's slot for the track's media kind points at the file mob.
CreateMobs(master, tape, mobs, mob_id, clip, kind) ==
    LET t    == _unique_tapemob(tape, mobs, mob_id, clip)
        ti   == MobIndex(t.mobs, t.mob)
        tsid == Len(t.mobs[ti].slots) + 1
        m1   == [t.mobs EXCEPT ![ti].slots =
                    Append(@, Slot(tsid, media_kind(kind),
                                   Component("SourceClip", 0, 0, 0, clip.ar[2])))]
        fid  == NewMobId(m1)
        m2   == Append(m1,
                    Mob("FileMob", fid, mob_id,
                        <<Slot(1, media_kind(kind),
                               Component("SourceClip", t.mob, tsid, 0, clip.ar[2]))>>))
        u    == _unique_mastermob(master, m2, mob_id)
        mi   == MobIndex(u.mobs, mob_id)
        m3   == [u.mobs EXCEPT ![mi].slots =
                    PutSlot(@, Slot(_master_mob_slot_id(kind), media_kind(kind),
                                    Component("SourceClip", fid, 1, 0, clip.ar[2])))]
    IN  [master |-> u.master, tape |-> t.tape, mobs |-> m3]

\* _copy_essence_for_clip: the Master mob with the clip's mob ID and its
\* source mob are copied from the referenced .aaf file; fails when the file
\* has no Master mob with that ID.
_copy_essence_for_clip(mobs, mob_id, clip, kind) ==
    IF clip.fmob # mob_id THEN [raised |-> "AAFAdapterError", mobs |-> mobs]
    ELSE LET fid == NewMobId(mobs)
         IN  [raised |-> "none",
              mobs |-> mobs \o
                 <<Mob("FileMob", fid, mob_id,
                       <<Slot(1, media_kind(kind),
                              Component("SourceClip", 0, 0, 0, clip.ar[2]))>>),
                   Mob("MasterMob", mob_id, mob_id,
                       <<Slot(1, media_kind(kind),
                              Component("SourceClip", fid, 1, 0, clip.ar[2]))>>)>>]

\* _import_essence_for_clip: the unique master and tape mobs of the mob ID,
\* and a new file mob with the essence, on a new slot of the master mob.
_import_essence_for_clip(master, tape, mobs, mob_id, clip, kind) ==
    LET u    == _unique_mastermob(master, mobs, mob_id)
        t    == _unique_tapemob(tape, u.mobs, mob_id, clip)
        fid  == NewMobId(t.mobs)
        m2   == Append(t.mobs,
                    Mob("FileMob", fid, mob_id,
                        <<Slot(1, media_kind(kind),
                               Component("SourceClip", t.mob,
                                         _master_mob_slot_id(kind),
                                         clip.ar[1], clip.ar[2]))>>))
        mi   == MobIndex(m2, mob_id)
        m3   == [m2 EXCEPT ![mi].slots =
                    Append(@, Slot(Len(@) + 1, media_kind(kind),
                                   Component("SourceClip", fid, 1, 0, clip.ar[2])))]
    IN  [master |-> u.master, tape |-> t.tape, mobs |-> m3]

\* The mobs part of aaf_sourceclip: the exception raised, the dictionaries
\* and content.mobs afterwards.
SourceClipMobs(master, tape, mobs, mob_id, clip, kind, embed_essence) ==
    IF embed_essence /\ clip.ref # "missing" THEN
        IF clip.suffix = "" THEN
            [raised |-> "FileNotFoundError", master |-> master, tape |-> tape,
             mobs |-> mobs]
        ELSE IF clip.suffix = "aaf" THEN
            LET c == _copy_essence_for_clip(mobs, mob_id, clip, kind)
            IN  [raised |-> c.raised, master |-> master, tape |-> tape,
                 mobs |-> c.mobs]
        ELSE IF clip.suffix \in {"dnx", "wav"} THEN
            LET i == _import_essence_for_clip(master, tape, mobs, mob_id, clip, kind)
            IN  [raised |-> "none", master |-> i.master, tape |-> i.tape,
                 mobs |-> i.mobs]
        ELSE [raised |-> "AAFAdapterError", master |-> master, tape |-> tape,
              mobs |-> mobs]
    ELSE LET c == CreateMobs(master, tape, mobs, mob_id, clip, kind)
         IN  [raised |-> "none", master |-> c.master, tape |-> c.tape,
              mobs |-> c.mobs]

\* A faulty variant of aaf_sourceclip: the start is the visible range's own
\* start, not its offset into the available range.
aaf_sourceclip_absolute_start(mob_id, clip, kind) ==
    Component("SourceClip", mob_id, _master_mob_slot_id(kind),
              visible_range(clip)[1], visible_range(clip)[2])

\* aaf_sourceclip: the SourceClip put into the composition mob's sequence.
aaf_sourceclip(mob_id, clip, kind) ==
    Component("SourceClip", mob_id, _master_mob_slot_id(kind),
              visible_range(clip)[1] - available_range(clip)[1],
              visible_range(clip)[2])

aaf_filler(gap) == Component("Filler", 0, 0, 0, visible_range(gap)[2])

\* aaf_transition: nothing for a transition that is no SMPTE_Dissolve.
aaf_transition(transition) ==
    IF transition.ttype # "SMPTE_Dissolve" THEN <<>>
    ELSE <<Component("Transition", 0, 0, transition.cut, transition.sr[2])>>

\* _TrackTranscriber.__init__: the edit rate is the first child's.
track_edit_rate(track) == WDuration(track.ch[1])[2]

\* _create_timeline_mobslot: a new slot of the composition mob; the
\* sequence of a sound slot sits in an "Audio Pan" OperationGroup that has
\* the length of the track's children added up.
CompSlot(slots, track) ==
    [slot_id |-> Len(slots) + 1, name |-> track.kind,
     kind |-> media_kind(track.kind), opgroup |-> track.kind = "Audio",
     edit_rate |-> track_edit_rate(track), phys |-> 0,
     length |-> IF track.kind = "Audio"
                   THEN SumSeq([i \in 1..Len(track.ch) |->
                                   visible_range(track.ch[i])[2]])
                   ELSE 0,
     components |-> <<>>]

\* add_timecode: the "TC" slot.
TimecodeSlot(slots, edit_rate, start) ==
    [slot_id |-> Len(slots) + 1, name |-> "TC", kind |-> "timecode",
     opgroup |-> FALSE, edit_rate |-> edit_rate, phys |-> 1, length |-> 0,
     components |-> <<Component("Timecode", 0, 0, start, 0)>>]

----------------------------------------------------------------------------
(* write_to_file, step by step.                                            *)

BaseRange == <<11, 2>>

BaseAvailable == <<10, 5>>

\* The usual children: gaps, dissolves, Slug generators, and clips with
\* the mob ID in any of the places the writer looks at.
UsualChildren ==
    {WGap(2), WTransition, WGenerator("Slug")}
    \cup {WClip(id[1], id[2], id[3], id[4], BaseRange, BaseAvailable) :
            id \in {<<1, 0, 0, 0>>, <<0, 0, 0, 4>>, <<0, 0, 0, 0>>,
                    <<1, 2, 3, 4>>, <<0, 2, 3, 4>>, <<0, 0, 3, 4>>,
                    <<1, 0, 0, 4>>}}
    \cup {WClip(1, 0, 0, 0, NoRange, BaseAvailable),
          WClip(1, 0, 0, 0, <<21, 3>>, <<20, 5>>)}

\* The unusual ones: each costs one of the MaxDev.
UnusualChildren ==
    {WGenerator("Bars"),
     [WGap(2) EXCEPT !.rate = 25],
     [WClip(1, 0, 0, 0, BaseRange, BaseAvailable) EXCEPT !.rate = 25],
     [WClip(1, 0, 0, 0, BaseRange, BaseAvailable) EXCEPT !.ars = 25],
     [WClip(1, 0, 0, 0, BaseRange, NoRange) EXCEPT !.ref = "missing",
                                                   !.ard = 0, !.ars = 0],
     [WClip(1, 0, 0, 0, NoRange, NoRange) EXCEPT !.ref = "missing",
                                                 !.ard = 0, !.ars = 0],
     [WClip(1, 0, 0, 0, BaseRange, BaseAvailable) EXCEPT !.suffix = "dnx"],
     [WClip(1, 0, 0, 0, BaseRange, BaseAvailable) EXCEPT !.suffix = ""],
     WClip(1, 0, 0, 0, <<10, 0>>, <<10, 0>>),
     [WTransition EXCEPT !.tmeta = TransitionKeys \ {"PointList"}],
     [WTransition EXCEPT !.tmeta = TransitionKeys \ {"Name", "CutPoint"}],
     [WTransition EXCEPT !.ttype = "Custom"],
     [WChild("Other") EXCEPT !.sr = <<0, 2>>]}

DefaultOptions ==
    [prefer_file_mob_id |-> FALSE, use_empty_mob_ids |-> FALSE,
     embed_essence |-> FALSE, pre_hook |-> "none", post_hook |-> "none",
     global_start_time |-> FALSE]

\* The calls with an unusual hook or timeline attribute.
UnusualOptions ==
    {[DefaultOptions EXCEPT !.pre_hook = "returns"],
     [DefaultOptions EXCEPT !.pre_hook = "raises"],
     [DefaultOptions EXCEPT !.post_hook = "returns"],
     [DefaultOptions EXCEPT !.post_hook = "raises"],
     [DefaultOptions EXCEPT !.global_start_time = TRUE]}

NoMap == <<>>

ItemCount(tracks) == SumSeq([t \in 1..Len(tracks) |-> Len(tracks[t].ch)])

WInit ==
    /\ wPhase = "build"
    /\ wTl = <<>>
    /\ wOpt = DefaultOptions
    /\ wDev = 0
    /\ wErr = "none"
    /\ wAt = "none"
    /\ wLines = <<>>
    /\ wIds = NoMap
    /\ wMaster = NoMap
    /\ wTape = NoMap
    /\ wMobs = <<>>
    /\ wSlots = <<>>
    /\ wPos = <<0, 0>>
    /\ wRead = Raise

WAddTrack ==
    /\ wPhase = "build"
    /\ Len(wTl) < MaxTracks
    /\ \E kind \in {"Video", "Audio", "Other"} :
        /\ kind = "Other" => wDev < MaxDev
        /\ wDev' = IF kind = "Other" THEN wDev + 1 ELSE wDev
        /\ wTl' = Append(wTl, [kind |-> kind, ch |-> <<>>])
    /\ UNCHANGED <<wPhase, wOpt, wErr, wAt, wLines, wIds, wMaster, wTape, wMobs,
                   wSlots, wPos>>

WAddChild ==
    /\ wPhase = "build"
    /\ Len(wTl) >= 1
    /\ ItemCount(wTl) < MaxItems
    /\ \E child \in UsualChildren \cup UnusualChildren :
        /\ child \in UnusualChildren => wDev < MaxDev
        /\ wDev' = IF child \in UnusualChildren THEN wDev + 1 ELSE wDev
        /\ wTl' = [wTl EXCEPT ![Len(wTl)].ch = Append(@, child)]
    /\ UNCHANGED <<wPhase, wOpt, wErr, wAt, wLines, wIds, wMaster, wTape, wMobs,
                   wSlots, wPos>>

\* write_to_file is called: the output file is opened.
WBegin ==
    /\ wPhase = "build"
    /\ \E prefer \in BOOLEAN, empty \in BOOLEAN, embed \in BOOLEAN,
          o \in UnusualOptions \cup {DefaultOptions} :
        /\ o # DefaultOptions => wDev < MaxDev
        /\ wDev' = IF o # DefaultOptions THEN wDev + 1 ELSE wDev
        /\ wOpt' = [o EXCEPT !.prefer_file_mob_id = prefer,
                             !.use_empty_mob_ids = empty,
                             !.embed_essence = embed]
    /\ wPhase' = "pre"
    /\ UNCHANGED <<wTl, wErr, wAt, wLines, wIds, wMaster, wTape, wMobs, wSlots, wPos>>

\* An exception leaves write_to_file; the with block closes the file.
\* wAt keeps the step that raised it.
Raised(err, lines) ==
    /\ wPhase' = "raised"
    /\ wAt' = wPhase
    /\ wErr' = err
    /\ wLines' = lines

\* A faulty variant of PreWriteHook: the hook's error is swallowed.
PreWriteHook_error_swallowed ==
    /\ wPhase = "pre"
    /\ wPhase' = "validate"
    /\ UNCHANGED <<wTl, wOpt, wDev, wErr, wAt, wLines, wIds, wMaster, wTape,
                   wMobs, wSlots, wPos>>

\* hooks.run_pre_write_transcribe_hook.
PreWriteHook ==
    /\ wPhase = "pre"
    /\ IF wOpt.pre_hook = "raises"
          THEN Raised("HookError", <<>>)
          ELSE wPhase' = "validate" /\ UNCHANGED <<wErr, wAt, wLines>>
    /\ UNCHANGED <<wTl, wOpt, wDev, wIds, wMaster, wTape, wMobs, wSlots, wPos>>

\* _stackify_nested_groups: every Track that is a direct child of a track
\* is put into a Stack of its own.
_stackify_nested_groups(tracks) ==
    [t \in 1..Len(tracks) |->
        [tracks[t] EXCEPT !.ch =
            [i \in 1..Len(tracks[t].ch) |->
                IF tracks[t].ch[i].type = "Track"
                    THEN [WChild("Stack") EXCEPT !.name = "nested"]
                    ELSE tracks[t].ch[i]]]]

\* timeline = _stackify_nested_groups(hook_tl); validate_metadata(timeline).
Validate ==
    /\ wPhase = "validate"
    /\ LET v == validate_metadata(_stackify_nested_groups(wTl))
       IN  IF v.raised # "none" THEN Raised(v.raised, v.lines)
           ELSE wPhase' = "gather" /\ UNCHANGED <<wErr, wAt, wLines>>
    /\ UNCHANGED <<wTl, wOpt, wDev, wIds, wMaster, wTape, wMobs, wSlots, wPos>>

\* AAFFileTranscriber(...): the composition mob is created and the clips'
\* mob IDs are gathered.
Gather ==
    /\ wPhase = "gather"
    /\ LET g == _gather_clip_mob_ids(_stackify_nested_groups(wTl),
                                     wOpt.prefer_file_mob_id,
                                     wOpt.use_empty_mob_ids)
       IN  IF g.raised # "none"
              THEN Raised(g.raised, <<>>) /\ UNCHANGED <<wIds, wPos>>
              ELSE /\ wPhase' = "tracks"
                   /\ wIds' = g.ids
                   /\ wPos' = <<1, 0>>
                   /\ UNCHANGED <<wErr, wAt, wLines>>
    /\ wMobs' = <<Mob("CompositionMob", NewMobId(<<>>), 0, <<>>)>>
    /\ UNCHANGED <<wTl, wOpt, wDev, wMaster, wTape, wSlots>>

\* The loop "for otio_track in timeline.tracks", at the head of a track:
\* an empty track is skipped, any other gets its transcriber and its slot.
NextTrack ==
    /\ wPhase = "tracks"
    /\ wPos[2] = 0
    /\ LET t == wPos[1] IN
       IF t > Len(wTl) THEN
            /\ wPhase' = "timecode"
            /\ UNCHANGED <<wErr, wAt, wLines, wSlots, wPos>>
       ELSE IF Len(wTl[t].ch) = 0 THEN
            /\ wPos' = <<t + 1, 0>>
            /\ UNCHANGED <<wPhase, wErr, wAt, wLines, wSlots>>
       ELSE IF wTl[t].kind \notin {"Video", "Audio"} THEN
            /\ Raised("NotSupportedError", <<>>)
            /\ UNCHANGED <<wSlots, wPos>>
       ELSE
            /\ wSlots' = Append(wSlots, CompSlot(wSlots, wTl[t]))
            /\ wPos' = <<t, 1>>
            /\ UNCHANGED <<wPhase, wErr, wAt, wLines>>
    /\ UNCHANGED <<wTl, wOpt, wDev, wIds, wMaster, wTape, wMobs>>

\* transcriber.transcribe(otio_child) and the append to the sequence.
TranscribeChild ==
    /\ wPhase = "tracks"
    /\ wPos[2] >= 1
    /\ LET t == wPos[1]
           i == wPos[2]
           track == wTl[t]
           next == IF i = Len(track.ch) THEN <<t + 1, 0>> ELSE <<t, i + 1>>
           child == track.ch[i]
           gap == _is_considered_gap(child)
       IN  IF gap = "raise" THEN
                /\ Raised("NotSupportedError", <<>>)
                /\ UNCHANGED <<wMaster, wTape, wMobs, wSlots, wPos>>
           ELSE IF gap = "yes" \/ child.type = "Transition" THEN
                /\ wSlots' = [wSlots EXCEPT ![Len(wSlots)].components =
                                 @ \o (IF gap = "yes" THEN <<aaf_filler(child)>>
                                       ELSE aaf_transition(child))]
                /\ wPos' = next
                /\ UNCHANGED <<wPhase, wErr, wAt, wLines, wMaster, wTape, wMobs>>
           ELSE IF child.type # "Clip" THEN
                /\ Raised("NotSupportedError", <<>>)
                /\ UNCHANGED <<wMaster, wTape, wMobs, wSlots, wPos>>
           ELSE
                LET m == SourceClipMobs(wMaster, wTape, wMobs, wIds[<<t, i>>],
                                        child, track.kind, wOpt.embed_essence)
                IN  IF m.raised # "none" THEN
                        /\ Raised(m.raised, <<>>)
                        /\ wMobs' = m.mobs
                        /\ UNCHANGED <<wMaster, wTape, wSlots, wPos>>
                    ELSE
                        /\ wMaster' = m.master
                        /\ wTape' = m.tape
                        /\ wMobs' = m.mobs
                        /\ wSlots' = [wSlots EXCEPT ![Len(wSlots)].components =
                                         Append(@, aaf_sourceclip(wIds[<<t, i>>],
                                                                  child, track.kind))]
                        /\ wPos' = next
                        /\ UNCHANGED <<wPhase, wErr, wAt, wLines>>
    /\ UNCHANGED <<wTl, wOpt, wDev, wIds>>

\* default_edit_rate: the edit rate of the first track that is not empty,
\* 0 when every track is empty.
RECURSIVE default_edit_rate(_)
default_edit_rate(tracks) ==
    IF tracks = <<>> THEN 0
    ELSE IF Len(Head(tracks).ch) = 0 THEN default_edit_rate(Tail(tracks))
    ELSE track_edit_rate(Head(tracks))

\* "if default_edit_rate or input_otio.global_start_time: add_timecode".
AddTimecode ==
    /\ wPhase = "timecode"
    /\ wSlots' = IF default_edit_rate(wTl) # 0 \/ wOpt.global_start_time
                    THEN Append(wSlots,
                             TimecodeSlot(wSlots,
                                 IF wOpt.global_start_time THEN 24
                                 ELSE default_edit_rate(wTl),
                                 IF wOpt.global_start_time THEN 1 ELSE 0))
                    ELSE wSlots
    /\ wPhase' = "post"
    /\ UNCHANGED <<wTl, wOpt, wDev, wErr, wAt, wLines, wIds, wMaster, wTape, wMobs,
                   wPos>>

\* hooks.run_post_write_transcribe_hook, and the file is closed.
PostWriteHook ==
    /\ wPhase = "post"
    /\ IF wOpt.post_hook = "raises"
          THEN Raised("HookError", <<>>)
          ELSE wPhase' = "closed" /\ UNCHANGED <<wErr, wAt, wLines>>
    /\ UNCHANGED <<wTl, wOpt, wDev, wIds, wMaster, wTape, wMobs, wSlots, wPos>>

----------------------------------------------------------------------------
(* read_from_file on the file that write_to_file has closed, with the      *)
(* default arguments and no hook registered: the top-level composition mob *)
(* is transcribed, _fix_transitions and _simplify follow (the file has no  *)
(* marker for _attach_markers to move).                                    *)

\* The name of the data definition of a media kind, as pyaaf2 gives it.
DataDefName(kind) ==
    IF kind = "picture" THEN "Picture"
    ELSE IF kind = "sound" THEN "Sound"
    ELSE "Timecode"

\* Where the slot with an ID sits in a mob's slots, 0 if nowhere.
SlotIndex(slots, slot_id) ==
    IF \E i \in 1..Len(slots) : slots[i].slot_id = slot_id
        THEN CHOOSE i \in 1..Len(slots) :
                /\ slots[i].slot_id = slot_id
                /\ \A j \in 1..(i - 1) : slots[j].slot_id # slot_id
        ELSE 0

\* _get_mob_start_tc, called for a SourceMob only: the range of the mob's
\* first Timecode with PhysicalTrackNumber 1, None without.  The Timecode
\* slot that pyaaf2's create_tape_slots gives a tape mob is taken to carry
\* that number.
_get_mob_start_tc(mob) ==
    IF mob.cls \in {"TapeMob", "FileMob"}
       /\ \E i \in 1..Len(mob.slots) : mob.slots[i].seg.type = "Timecode"
        THEN LET i == CHOOSE i \in 1..Len(mob.slots) :
                        /\ mob.slots[i].seg.type = "Timecode"
                        /\ \A j \in 1..(i - 1) : mob.slots[j].seg.type # "Timecode"
             IN  <<mob.slots[i].seg.start, mob.slots[i].seg.length>>
        ELSE NoRange

\* TimeRange.clamped(other): other, moved and cut to lie within self.
clamped(self, other) ==
    <<Max(other[1], self[1]),
      (IF Max(other[1], self[1]) + other[2] < EndOf(self)
          THEN Max(other[1], self[1]) + other[2]
          ELSE EndOf(self)) - Max(other[1], self[1])>>

_get_source_clip_ranges(source_clip, in_range, start_tc) ==
    LET start == source_clip.start
                 + (IF start_tc # NoRange THEN start_tc[1] ELSE 0)
        duration == IF start_tc # NoRange
                       THEN Max(source_clip.length, start_tc[2])
                       ELSE source_clip.length
    IN  IF in_range # NoRange
            THEN clamped(<<start + in_range[1], duration>>, in_range)
            ELSE <<start, duration>>

\* _get_source_mob_reference_chain: the <<mob, slot>> a SourceClip leads
\* to, <<0, 0>> where the chain ends (no mob, no slot, no SourceClip there).
NextInChain(mobs, source_clip) ==
    LET m == MobIndex(mobs, source_clip.mob)
        s == IF m = 0 THEN 0 ELSE SlotIndex(mobs[m].slots, source_clip.slot_id)
    IN  IF s # 0 /\ mobs[m].slots[s].seg.type = "SourceClip"
            THEN <<m, s>> ELSE <<0, 0>>

\* The loop over the reversed chain in _transcribe_master_mob: the range
\* of the link at <<mob, slot>>, within the range of the link behind it.
RECURSIVE ChainRange(_, _)
ChainRange(mobs, at) ==
    _get_source_clip_ranges(
        mobs[at[1]].slots[at[2]].seg,
        IF NextInChain(mobs, mobs[at[1]].slots[at[2]].seg) # <<0, 0>>
            THEN ChainRange(mobs, NextInChain(mobs, mobs[at[1]].slots[at[2]].seg))
            ELSE NoRange,
        _get_mob_start_tc(mobs[at[1]]))

\* _transcribe_master_mob: the Track of one slot of a Master mob.  A
\* component without length is left out, a SourceClip becomes a Clip with
\* the range its chain gives, anything else a Gap.
_transcribe_master_mob(mobs, m, s) ==
    [Node("Track",
          IF mobs[m].slots[s].seg.length = 0 THEN <<>>
          ELSE IF mobs[m].slots[s].seg.type # "SourceClip"
              THEN <<Gap(mobs[m].slots[s].seg.length)>>
          ELSE <<[Node("Clip", <<>>) EXCEPT
                     !.sr = ChainRange(mobs, <<m, s>>),
                     !.mkind = DataDefName(mobs[m].slots[s].kind)]>>)
     EXCEPT !.kind = _transcribe_media_kind(DataDefName(mobs[m].slots[s].kind))]

\* The slot of a Master mob a SourceClip of the composition points at, 0
\* when the mob or the slot cannot be found.
MasterSlot(mobs, item) ==
    IF MobIndex(mobs, item.mob) = 0 THEN 0
    ELSE IF mobs[MobIndex(mobs, item.mob)].cls # "MasterMob" THEN 0
    ELSE SlotIndex(mobs[MobIndex(mobs, item.mob)].slots, item.slot_id)

\* _transcribe of a component of a sequence: a Filler becomes a Gap, a
\* Transition a Transition with the offsets on either side of the cut
\* point, a SourceClip the Track of the Master mob's slot with the clip's
\* start and length as its source range (a Gap when there is no such slot).
TranscribeComponent(mobs, item, kind) ==
    IF item.type = "Filler" \/ (item.type = "SourceClip" /\ MasterSlot(mobs, item) = 0)
        THEN [Gap(item.length) EXCEPT !.mkind = DataDefName(kind)]
    ELSE IF item.type = "Transition"
        THEN [Transition(item.start, item.length - item.start) EXCEPT
                 !.mkind = DataDefName(kind)]
    ELSE [_transcribe_master_mob(mobs, MobIndex(mobs, item.mob),
                                 MasterSlot(mobs, item))
             EXCEPT !.sr = <<item.start, item.length>>,
                    !.kind = _transcribe_media_kind(DataDefName(kind)),
                    !.mkind = DataDefName(kind)]

\* _transcribe of a Sequence: a Track of its components.
TranscribeSequence(mobs, slot) ==
    [Node("Track", [i \in 1..Len(slot.components) |->
                       TranscribeComponent(mobs, slot.components[i], slot.kind)])
     EXCEPT !.kind = _transcribe_media_kind(DataDefName(slot.kind)),
            !.mkind = DataDefName(slot.kind)]

\* _transcribe_operation_group: a Stack with the operation's name and
\* length, an Effect for it, and the sequence inside.
_transcribe_operation_group(slot, sequence) ==
    [Node("Stack", <<sequence>>) EXCEPT
        !.name = "Audio Pan", !.fx = <<"effect">>, !.sr = <<0, slot.length>>,
        !.mkind = DataDefName(slot.kind)]

\* _transcribe of a TimelineMobSlot of the composition mob: a Track around
\* what becomes of the slot's segment; a Timecode gives nothing.
TranscribeSlot(mobs, slot) ==
    [Node("Track",
          IF slot.kind = "timecode" THEN <<>>
          ELSE IF slot.opgroup
              THEN <<_transcribe_operation_group(slot,
                         TranscribeSequence(mobs, slot))>>
          ELSE <<TranscribeSequence(mobs, slot)>>)
     EXCEPT !.kind = _transcribe_media_kind(DataDefName(slot.kind)),
            !.name = slot.name]

\* A faulty variant of FixedChild: the Transition behind the item is not
\* looked at.
FixedChild_before_only(track, c) ==
    LET before == c > 1 /\ track.ch[c - 1].type = "Transition"
        csr    == trimmed_range(track.ch[c])
    IN  IF ~IsItem(track.ch[c]) \/ ~before THEN track.ch[c]
        ELSE [track.ch[c] EXCEPT !.sr = <<csr[1] + track.ch[c - 1].inoff,
                                          csr[2] - track.ch[c - 1].inoff>>]

\* _fix_transitions for one child of a Track: an Item next to a Transition
\* gives up the transition's offset on that side.
FixedChild(track, c) ==
    LET before == c > 1 /\ track.ch[c - 1].type = "Transition"
        after  == c < Len(track.ch) /\ track.ch[c + 1].type = "Transition"
        csr    == trimmed_range(track.ch[c])
        pre    == IF before THEN track.ch[c - 1].inoff ELSE 0
        post   == IF after THEN track.ch[c + 1].outoff ELSE 0
    IN  IF ~IsItem(track.ch[c]) \/ (~before /\ ~after) THEN track.ch[c]
        ELSE [track.ch[c] EXCEPT !.sr = <<csr[1] + pre, csr[2] - pre - post>>]

RECURSIVE _fix_transitions(_)
_fix_transitions(thing) ==
    [thing EXCEPT !.ch =
        [c \in 1..Len(thing.ch) |->
            _fix_transitions(IF thing.type = "Track" THEN FixedChild(thing, c)
                             ELSE thing.ch[c])]]

\* read_from_file: the collection of the one top-level composition mob's
\* Timeline, its transitions fixed, simplified.
read_from_file(mobs, slots) ==
    _simplify(
        _fix_transitions(
            Collection(<<Timeline(Node("Stack",
                [s \in 1..Len(slots) |-> TranscribeSlot(mobs, slots[s])]))>>)),
        "None", FALSE)

\* The file that write_to_file has closed is read.
ReadBack ==
    /\ wPhase = "closed"
    /\ wRead' = read_from_file(wMobs, wSlots)
    /\ wPhase' = "read"
    /\ UNCHANGED <<wTl, wOpt, wDev, wErr, wAt, wLines, wIds, wMaster, wTape, wMobs,
                   wSlots, wPos>>

WNext ==
    \/ ReadBack /\ UNCHANGED <<sVars, rVars, xVars>>
    \/ WAddTrack /\ UNCHANGED <<sVars, rVars, xVars, wRead>>
    \/ WAddChild /\ UNCHANGED <<sVars, rVars, xVars, wRead>>
    \/ WBegin /\ UNCHANGED <<sVars, rVars, xVars, wRead>>
    \/ PreWriteHook /\ UNCHANGED <<sVars, rVars, xVars, wRead>>
    \/ Validate /\ UNCHANGED <<sVars, rVars, xVars, wRead>>
    \/ Gather /\ UNCHANGED <<sVars, rVars, xVars, wRead>>
    \/ NextTrack /\ UNCHANGED <<sVars, rVars, xVars, wRead>>
    \/ TranscribeChild /\ UNCHANGED <<sVars, rVars, xVars, wRead>>
    \/ AddTimecode /\ UNCHANGED <<sVars, rVars, xVars, wRead>>
    \/ PostWriteHook /\ UNCHANGED <<sVars, rVars, xVars, wRead>>

----------------------------------------------------------------------------
(* read_from_file, step by step, and the module-level _MOB_TIMELINE_CACHE.  *)
(* A file is the Master and Composition mobs in the order _transcribe      *)
(* reaches them (a mob that several SourceClips point at comes up again);  *)
(* the fault of a read is the step of it that raises.  The cache maps a    *)
(* mob ID to the read that put the entry in.                               *)

MobIds == 1..2

ReadFaults ==
    {"none", "pre", "transcribe", "post", "fix", "markers", "simplify"}

RInit ==
    /\ rPhase = "idle"
    /\ rMobs = <<>>
    /\ rOpt = [fault |-> "none", attach_markers |-> TRUE, simplify |-> TRUE]
    /\ rPos = 0
    /\ rCache = NoMap
    /\ rErr = "none"
    /\ rReads = 0

\* read_from_file is called: the globals are set and the file is opened.
ReadBegin ==
    /\ rPhase \in {"idle", "returned", "raised"}
    /\ rReads < MaxReads
    /\ \E n \in 0..MaxMobs, fault \in ReadFaults,
          attach_markers \in BOOLEAN, simplify \in BOOLEAN :
        /\ fault = "transcribe" => n >= 1
        /\ fault = "markers" => attach_markers
        /\ fault = "simplify" => simplify
        /\ \E mobs \in [1..n -> MobIds] : rMobs' = mobs
        /\ rOpt' = [fault |-> fault, attach_markers |-> attach_markers,
                    simplify |-> simplify]
    /\ rReads' = rReads + 1
    /\ rCache' = NoMap
    /\ rPos' = 0
    /\ rErr' = "none"
    /\ rPhase' = "pre"

\* An exception leaves read_from_file.
RaisedInRead(err) ==
    /\ rPhase' = "raised"
    /\ rErr' = err
    /\ UNCHANGED <<rMobs, rOpt, rPos, rCache, rReads>>

\* hooks.run_pre_read_transcribe_hook.
PreReadHook ==
    /\ rPhase = "pre"
    /\ IF rOpt.fault = "pre" THEN RaisedInRead("HookError")
       ELSE rPhase' = "transcribe"
            /\ UNCHANGED <<rMobs, rOpt, rPos, rCache, rErr, rReads>>

\* _transcribe reaches the next Master or Composition mob: its timeline is
\* taken from the cache or built and put there.  The fault of a file that
\* cannot be transcribed shows at its last mob.
TranscribeMob ==
    /\ rPhase = "transcribe"
    /\ rPos < Len(rMobs)
    /\ IF rOpt.fault = "transcribe" /\ rPos + 1 = Len(rMobs)
          THEN RaisedInRead("AAFAdapterError")
          ELSE /\ rPos' = rPos + 1
               /\ rCache' = IF rMobs[rPos + 1] \in DOMAIN rCache THEN rCache
                            ELSE [id \in DOMAIN rCache \cup {rMobs[rPos + 1]} |->
                                     IF id = rMobs[rPos + 1] THEN rReads
                                     ELSE rCache[id]]
               /\ UNCHANGED <<rPhase, rMobs, rOpt, rErr, rReads>>

\* hooks.run_post_read_transcribe_hook, and the file is closed.
PostReadHook ==
    /\ rPhase = "transcribe"
    /\ rPos = Len(rMobs)
    /\ IF rOpt.fault = "post" THEN RaisedInRead("HookError")
       ELSE rPhase' = "fix"
            /\ UNCHANGED <<rMobs, rOpt, rPos, rCache, rErr, rReads>>

FixTransitions ==
    /\ rPhase = "fix"
    /\ IF rOpt.fault = "fix" THEN RaisedInRead("Error")
       ELSE rPhase' = "markers"
            /\ UNCHANGED <<rMobs, rOpt, rPos, rCache, rErr, rReads>>

\* "if attach_markers: timeline = _attach_markers(timeline)".
AttachMarkers ==
    /\ rPhase = "markers"
    /\ IF rOpt.attach_markers /\ rOpt.fault = "markers" THEN RaisedInRead("Error")
       ELSE rPhase' = "simplify"
            /\ UNCHANGED <<rMobs, rOpt, rPos, rCache, rErr, rReads>>

\* "if simplify: timeline = _simplify(timeline)", the globals are reset and
\* the timeline is returned.
SimplifyAndReturn ==
    /\ rPhase = "simplify"
    /\ IF rOpt.simplify /\ rOpt.fault = "simplify" THEN RaisedInRead("Error")
       ELSE /\ rPhase' = "returned"
            /\ rCache' = NoMap
            /\ UNCHANGED <<rMobs, rOpt, rPos, rErr, rReads>>

RNext ==
    \/ ReadBegin /\ UNCHANGED <<sVars, wVars, xVars>>
    \/ PreReadHook /\ UNCHANGED <<sVars, wVars, xVars>>
    \/ TranscribeMob /\ UNCHANGED <<sVars, wVars, xVars>>
    \/ PostReadHook /\ UNCHANGED <<sVars, wVars, xVars>>
    \/ FixTransitions /\ UNCHANGED <<sVars, wVars, xVars>>
    \/ AttachMarkers /\ UNCHANGED <<sVars, wVars, xVars>>
    \/ SimplifyAndReturn /\ UNCHANGED <<sVars, wVars, xVars>>

----------------------------------------------------------------------------
(* The four extension points of hooks.py.  The registry maps each of the   *)
(* four hook names to what the script attached to it does: "none" when no  *)
(* script is registered under the name, "returns" when the script gives a  *)
(* timeline of its own, "raises" when it fails.                            *)

HOOK_PRE_READ_TRANSCRIBE == "otio_aaf_pre_read_transcribe"

HOOK_POST_READ_TRANSCRIBE == "otio_aaf_post_read_transcribe"

HOOK_PRE_WRITE_TRANSCRIBE == "otio_aaf_pre_write_transcribe"

HOOK_POST_WRITE_TRANSCRIBE == "otio_aaf_post_write_transcribe"

HookNames ==
    {HOOK_PRE_READ_TRANSCRIBE, HOOK_POST_READ_TRANSCRIBE,
     HOOK_PRE_WRITE_TRANSCRIBE, HOOK_POST_WRITE_TRANSCRIBE}

\* otio.hooks.names(): the names that have a script.
hooks_names(reg) == {n \in HookNames : reg[n] # "none"}

\* otio.hooks.run(hook, tl, extra_args): the script's timeline, or its
\* error; the lookup of a name the registry does not have is a KeyError.
hooks_run(reg, hook, tl) ==
    IF reg[hook] = "none" THEN [raised |-> "KeyError", ran |-> "none", tl |-> tl]
    ELSE IF reg[hook] = "raises"
        THEN [raised |-> "HookError", ran |-> hook, tl |-> tl]
    ELSE [raised |-> "none", ran |-> hook, tl |-> "from " \o hook]

NotRun(tl) == [raised |-> "none", ran |-> "none", tl |-> tl]

run_pre_write_transcribe_hook(reg, timeline) ==
    IF HOOK_PRE_WRITE_TRANSCRIBE \in hooks_names(reg)
        THEN hooks_run(reg, HOOK_PRE_WRITE_TRANSCRIBE, timeline)
        ELSE NotRun(timeline)

run_post_write_transcribe_hook(reg, timeline) ==
    IF HOOK_POST_WRITE_TRANSCRIBE \in hooks_names(reg)
        THEN hooks_run(reg, HOOK_POST_WRITE_TRANSCRIBE, timeline)
        ELSE NotRun(timeline)

\* The pre-read hook has no timeline to work on and its result is dropped.
run_pre_read_transcribe_hook(reg) ==
    IF HOOK_PRE_WRITE_TRANSCRIBE \in hooks_names(reg)
        THEN [hooks_run(reg, HOOK_PRE_READ_TRANSCRIBE, "None") EXCEPT !.tl = "None"]
        ELSE NotRun("None")

run_post_read_transcribe_hook(reg, timeline) ==
    IF HOOK_POST_WRITE_TRANSCRIBE \in hooks_names(reg)
        THEN hooks_run(reg, HOOK_POST_WRITE_TRANSCRIBE, timeline)
        ELSE NotRun(timeline)

HInit ==
    /\ hPhase = "idle"
    /\ hReg = [n \in HookNames |-> "none"]
    /\ hPoint = "none"
    /\ hOut = NotRun("None")

\* The plugin manifest is loaded: scripts are attached to some hook names.
HRegister ==
    /\ hPhase = "idle"
    /\ hReg' \in [HookNames -> {"none", "returns", "raises"}]
    /\ hPhase' = "registered"
    /\ UNCHANGED <<hPoint, hOut>>

HPreWrite ==
    /\ hPhase = "registered"
    /\ hPoint' = HOOK_PRE_WRITE_TRANSCRIBE
    /\ hOut' = run_pre_write_transcribe_hook(hReg, "input")
    /\ hPhase' = "done"
    /\ UNCHANGED hReg

HPostWrite ==
    /\ hPhase = "registered"
    /\ hPoint' = HOOK_POST_WRITE_TRANSCRIBE
    /\ hOut' = run_post_write_transcribe_hook(hReg, "input")
    /\ hPhase' = "done"
    /\ UNCHANGED hReg

HPreRead ==
    /\ hPhase = "registered"
    /\ hPoint' = HOOK_PRE_READ_TRANSCRIBE
    /\ hOut' = run_pre_read_transcribe_hook(hReg)
    /\ hPhase' = "done"
    /\ UNCHANGED hReg

HPostRead ==
    /\ hPhase = "registered"
    /\ hPoint' = HOOK_POST_READ_TRANSCRIBE
    /\ hOut' = run_post_read_transcribe_hook(hReg, "input")
    /\ hPhase' = "done"
    /\ UNCHANGED hReg

HNext ==
    \/ HRegister /\ UNCHANGED <<sVars, wVars, rVars, tVars, eVars, mVars, fVars, pVars>>
    \/ HPreWrite /\ UNCHANGED <<sVars, wVars, rVars, tVars, eVars, mVars, fVars, pVars>>
    \/ HPostWrite /\ UNCHANGED <<sVars, wVars, rVars, tVars, eVars, mVars, fVars, pVars>>
    \/ HPreRead /\ UNCHANGED <<sVars, wVars, rVars, tVars, eVars, mVars, fVars, pVars>>
    \/ HPostRead /\ UNCHANGED <<sVars, wVars, rVars, tVars, eVars, mVars, fVars, pVars>>

----------------------------------------------------------------------------
(* _transcribe on the components of a slot.  A component is a record with  *)
(* its AAF class in type; a Selector has its Selected component and its    *)
(* Alternates (has_alternates is FALSE when the property is absent), a     *)
(* Sequence its components, an OperationGroup its input segments.  The     *)
(* mobs of the file are a Master mob on a tape mob, a Composition mob and  *)
(* a Source mob; a SourceClip names a mob by ID, 0 for the null ID.        *)

AAFObject(type, length) ==
    [type |-> type, length |-> length, start |-> 0, mob |-> 0, slot_id |-> 0,
     selected |-> <<>>, has_alternates |-> FALSE, alternates |-> <<>>,
     components |-> <<>>]

\* What a call gives: the exception that left it ("none" if none) and the
\* object it returned; None is a node of its own.
Returned(result) == [raised |-> "none", result |-> result]

Failed(error) == [raised |-> error, result |-> Node("None", <<>>)]

\* The tracks of the timeline _transcribe makes of a Master mob: one per
\* slot (_transcribe_master_mob), each with the slot's SlotID.
MasterMobTrack(mobs, m, slot_id) ==
    IF SlotIndex(mobs[m].slots, slot_id) = 0 THEN Node("None", <<>>)
    ELSE _transcribe_master_mob(mobs, m, SlotIndex(mobs[m].slots, slot_id))

\* The "Wrong duration?" check at the end of _transcribe: an Item whose
\* source range is not as long as the component's Length.
WrongDuration(item, result) ==
    /\ result.type \in {"Gap", "Clip", "Track", "Stack"}
    /\ item.length # 0
    /\ result.sr # NoRange
    /\ result.sr[2] # item.length

RECURSIVE _transcribe(_, _)
RECURSIVE TranscribeChildren(_, _, _)

\* "for component in item.components: child = _transcribe(...);
\* _add_child(result, child, component)": the children so far, or the
\* exception of the first child that raises.
TranscribeChildren(mobs, components, done) ==
    IF components = <<>> THEN Returned(Node("Track", done))
    ELSE LET child == _transcribe(mobs, Head(components))
         IN  IF child.raised # "none" THEN child
             ELSE TranscribeChildren(mobs, Tail(components),
                      IF child.result.type = "None" THEN done
                      ELSE Append(done, child.result))

\* The track of the timeline of a Composition mob that has the SlotID: a
\* Track around what becomes of the slot's segment.
CompositionMobTrack(mobs, m, slot_id) ==
    IF SlotIndex(mobs[m].slots, slot_id) = 0 THEN Returned(Node("None", <<>>))
    ELSE TranscribeChildren(mobs,
             <<mobs[m].slots[SlotIndex(mobs[m].slots, slot_id)].seg>>, <<>>)

\* A faulty variant of the SourceClip branch: the Gap of an unresolvable
\* clip starts where the clip starts.
TranscribeSourceClip_gap_at_clip_start(mobs, item) ==
    LET m == MobIndex(mobs, item.mob)
        slot_track ==
            IF m = 0 THEN Returned(Node("None", <<>>))
            ELSE IF mobs[m].cls = "MasterMob"
                THEN Returned(MasterMobTrack(mobs, m, item.slot_id))
            ELSE IF mobs[m].cls = "CompositionMob"
                THEN CompositionMobTrack(mobs, m, item.slot_id)
            ELSE Returned(Node("None", <<>>))
    IN  IF slot_track.raised # "none" THEN slot_track
        ELSE IF m = 0 \/ slot_track.result.type = "None"
            THEN Returned([Gap(item.length) EXCEPT
                              !.sr = <<item.start, item.length>>])
        ELSE IF mobs[m].cls = "CompositionMob"
            THEN Returned([Node("Stack", <<slot_track.result>>) EXCEPT
                              !.sr = <<item.start, item.length>>])
        ELSE Returned([slot_track.result EXCEPT
                          !.sr = <<item.start, item.length>>])

\* The SourceClip branch of _transcribe.
TranscribeSourceClip(mobs, item) ==
    LET m == MobIndex(mobs, item.mob)
        slot_track ==
            IF m = 0 THEN Returned(Node("None", <<>>))
            ELSE IF mobs[m].cls = "MasterMob"
                THEN Returned(MasterMobTrack(mobs, m, item.slot_id))
            ELSE IF mobs[m].cls = "CompositionMob"
                THEN CompositionMobTrack(mobs, m, item.slot_id)
            ELSE Returned(Node("None", <<>>))
    IN  IF slot_track.raised # "none" THEN slot_track
        ELSE IF m = 0 \/ slot_track.result.type = "None"
            THEN Returned(Gap(item.length))
        ELSE IF mobs[m].cls = "CompositionMob"
            THEN Returned([Node("Stack", <<slot_track.result>>) EXCEPT
                              !.sr = <<item.start, item.length>>])
        ELSE Returned([slot_track.result EXCEPT
                          !.sr = <<item.start, item.length>>])

\* The Selector branch of _transcribe.  len(None) in the message of the
\* error raises TypeError before AAFAdapterError can be raised.
TranscribeSelector(mobs, item) ==
    IF item.selected.type \in {"Filler", "ScopeReference"} THEN
        IF ~item.has_alternates THEN Failed("TypeError")
        ELSE IF Len(item.alternates) # 1 THEN Failed("AAFAdapterError")
        ELSE LET alternate == _transcribe(mobs, item.alternates[1])
             IN  IF alternate.raised # "none" THEN alternate
                 ELSE IF alternate.result.type = "None"
                     THEN Failed("AttributeError")
                 ELSE Returned([alternate.result EXCEPT !.en = FALSE])
    ELSE LET selected == _transcribe(mobs, item.selected)
             alternates == TranscribeChildren(mobs, item.alternates, <<>>)
         IN  IF selected.raised # "none" THEN selected
             ELSE IF selected.result.type = "Gap"
                 THEN Failed("AAFAdapterError")
             ELSE IF alternates.raised # "none" THEN alternates
             ELSE selected

\* _transcribe_operation_group: a Stack as long as the OperationGroup, an
\* effect on it, the input segments inside.
TranscribeOperationGroup(mobs, item) ==
    LET segments == TranscribeChildren(mobs, item.components, <<>>)
    IN  IF segments.raised # "none" THEN segments
        ELSE Returned([Node("Stack", segments.result.ch) EXCEPT
                          !.fx = <<"effect">>, !.sr = <<0, item.length>>])

\* _transcribe: the branch of the component's class, then the check of the
\* duration.  A class without a branch of its own gives None.
_transcribe(mobs, item) ==
    LET made ==
            IF item.type = "SourceClip" THEN TranscribeSourceClip(mobs, item)
            ELSE IF item.type \in {"Filler", "ScopeReference"}
                THEN Returned(Gap(item.length))
            ELSE IF item.type = "Sequence"
                THEN TranscribeChildren(mobs, item.components, <<>>)
            ELSE IF item.type = "OperationGroup"
                THEN TranscribeOperationGroup(mobs, item)
            ELSE IF item.type = "Selector" THEN TranscribeSelector(mobs, item)
            ELSE Returned(Node("None", <<>>))
    IN  IF made.raised = "none" /\ WrongDuration(item, made.result)
            THEN Failed("AAFAdapterError")
            ELSE made

\* The mobs of the file: a Master mob (ID 1) whose slot 1 plays the tape
\* mob (ID 2), and a Composition mob (ID 3) whose slot 1 is a Filler.
TMobs ==
    <<Mob("MasterMob", 1, 1,
          <<Slot(1, "picture", Component("SourceClip", 2, 1, 0, MaxLength))>>),
      Mob("TapeMob", 2, 1,
          <<Slot(1, "picture", Component("SourceClip", 0, 0, 0, 0)),
            Slot(2, "timecode", Component("Timecode", 0, 0, 0, MaxLength))>>),
      Mob("CompositionMob", 3, 0,
          <<Slot(1, "picture", Component("Filler", 0, 0, 0, MaxLength))>>)>>

\* The components a file can hold at a place of a slot.  A SourceClip names
\* one of the mobs or none (0) and a slot the mob has (1) or has not (2).
SourceClipTo(mob, slot_id) ==
    [AAFObject("SourceClip", MaxLength) EXCEPT
        !.mob = mob, !.slot_id = slot_id, !.start = 1]

Selector(selected, has_alternates, alternates) ==
    [AAFObject("Selector", MaxLength) EXCEPT
        !.selected = selected, !.has_alternates = has_alternates,
        !.alternates = alternates]

Sequence(components) ==
    [AAFObject("Sequence", MaxLength) EXCEPT !.components = components]

OperationGroup(segments) ==
    [AAFObject("OperationGroup", MaxLength) EXCEPT !.components = segments]

TClips == {SourceClipTo(mob, slot_id) : mob \in 0..3, slot_id \in 1..2}

TLeaves ==
    TClips \cup {AAFObject("Filler", MaxLength),
                 AAFObject("ScopeReference", MaxLength),
                 AAFObject("Filler", MaxLength - 1)}

TAlternates ==
    {<<>>} \cup {<<a>> : a \in TLeaves}
           \cup {<<a, b>> : a \in {SourceClipTo(1, 1), SourceClipTo(0, 1)},
                            b \in {SourceClipTo(1, 1), SourceClipTo(1, 2)}}

TSelectors ==
    {Selector(selected, FALSE, <<>>) : selected \in TLeaves}
    \cup {Selector(selected, TRUE, alternates) :
             selected \in TLeaves, alternates \in TAlternates}

TInner ==
    TLeaves \cup TSelectors \cup {OperationGroup(<<leaf>>) : leaf \in TLeaves}

TItems ==
    TInner \cup {Sequence(<<c>>) : c \in TInner}
           \cup {Sequence(<<leaf, c>>) : leaf \in TClips, c \in TSelectors}
           \cup {OperationGroup(<<c>>) : c \in TSelectors}

TInit ==
    /\ tPhase = "idle"
    /\ tItem = AAFObject("Filler", 0)
    /\ tOut = Returned(Node("None", <<>>))

\* A file is opened: the component _transcribe is about to reach.
TOpen ==
    /\ tPhase = "idle"
    /\ tItem' \in TItems
    /\ tPhase' = "open"
    /\ UNCHANGED tOut

\* _transcribe is called on the component.
TTranscribe ==
    /\ tPhase = "open"
    /\ tOut' = _transcribe(TMobs, tItem)
    /\ tPhase' = "done"
    /\ UNCHANGED tItem

TNext ==
    \/ TOpen /\ UNCHANGED <<sVars, wVars, rVars, hVars, eVars, mVars, fVars, pVars>>
    \/ TTranscribe /\ UNCHANGED <<sVars, wVars, rVars, hVars, eVars, mVars, fVars, pVars>>

----------------------------------------------------------------------------
(* The effect of an OperationGroup.  A string is the sequence of its       *)
(* characters, so that str(), float() and split() do what Python does on   *)
(* the digits and the "/" of a SpeedRatio; a time scalar is a fraction     *)
(* <<numerator, denominator>> in lowest terms, and a control point is      *)
(* [time, value] with whole numbers for both.                              *)

Digit == <<"0", "1", "2", "3", "4", "5", "6", "7", "8", "9">>

\* str(n) of a whole number that is not negative.
RECURSIVE str(_)
str(n) == IF n < 10 THEN <<Digit[n + 1]>>
          ELSE Append(str(n \div 10), Digit[(n % 10) + 1])

DigitValue(c) == (CHOOSE i \in 1..10 : Digit[i] = c) - 1

\* A string float() accepts, of those made of digits and "/".
IsNumeral(s) ==
    s # <<>> /\ \A i \in 1..Len(s) : \E d \in 1..10 : Digit[d] = s[i]

\* float(s) of a numeral.
RECURSIVE float(_)
float(s) == IF Len(s) = 1 THEN DigitValue(s[1])
            ELSE 10 * float(SubSeq(s, 1, Len(s) - 1)) + DigitValue(s[Len(s)])

\* s.split('/').
RECURSIVE split(_, _)
split(s, part) ==
    IF s = <<>> THEN <<part>>
    ELSE IF Head(s) = "/" THEN <<part>> \o split(Tail(s), <<>>)
    ELSE split(Tail(s), Append(part, Head(s)))

RECURSIVE GCD(_, _)
GCD(a, b) == IF b = 0 THEN a ELSE GCD(b, a % b)

Abs(a) == IF a < 0 THEN -a ELSE a

\* The quotient n / d of two whole numbers, d not 0.
Quotient(n, d) ==
    <<(IF d < 0 THEN -n ELSE n) \div GCD(Abs(n), Abs(d)),
      Abs(d) \div GCD(Abs(n), Abs(d))>>

NoScalar == <<>>

Effect(schema, time_scalar) == [schema |-> schema, time_scalar |-> time_scalar]

Made(effect) == [raised |-> "none", effect |-> effect]

NotMade(error) == [raised |-> error, effect |-> Effect("None", NoScalar)]

\* _transcribe_fancy_timewarp: an unsupported time effect.
_transcribe_fancy_timewarp == Made(Effect("TimeEffect", NoScalar))

\* The scalar _transcribe_linear_timewarp computes from the SpeedRatio when
\* there are fewer than two control points.
ScalarOfRatio(length, ratio) ==
    IF ratio = str(length) THEN Made(Effect("LinearTimeWarp", <<0, 1>>))
    ELSE IF \E i \in 1..Len(ratio) : ratio[i] = "/" THEN
        IF Len(split(ratio, <<>>)) # 2
           \/ \E i \in 1..Len(split(ratio, <<>>)) :
                  ~IsNumeral(split(ratio, <<>>)[i])
            THEN NotMade("ValueError")
        ELSE IF float(split(ratio, <<>>)[1]) = 0
            THEN NotMade("ZeroDivisionError")
        ELSE Made(Effect("LinearTimeWarp",
                         Quotient(float(split(ratio, <<>>)[2]),
                                  float(split(ratio, <<>>)[1]))))
    ELSE IF ~IsNumeral(ratio) THEN NotMade("ValueError")
    ELSE IF float(ratio) = 0 THEN NotMade("ZeroDivisionError")
    ELSE Made(Effect("LinearTimeWarp", Quotient(1, float(ratio))))

\* A faulty variant of the last step: the effect stays a LinearTimeWarp.
FreezeIfZero_never(made) == made

\* The last step of _transcribe_linear_timewarp: a scalar of 0 makes the
\* effect a FreezeFrame.
FreezeIfZero(made) ==
    IF made.raised = "none" /\ made.effect.time_scalar[1] = 0
        THEN Made(Effect("FreezeFrame", <<0, 1>>))
        ELSE made

\* A faulty variant of _transcribe_linear_timewarp: the SpeedRatio is
\* trusted whenever there are fewer than three control points.
_transcribe_linear_timewarp_by_ratio(length, ratio, points) ==
    IF Len(points) > 2 THEN _transcribe_fancy_timewarp
    ELSE FreezeIfZero(ScalarOfRatio(length, ratio))

_transcribe_linear_timewarp(length, ratio, points) ==
    IF Len(points) > 2 THEN _transcribe_fancy_timewarp
    ELSE IF Len(points) = 2 THEN
        IF points[2].time = points[1].time THEN NotMade("ZeroDivisionError")
        ELSE FreezeIfZero(Made(Effect("LinearTimeWarp",
                 Quotient(points[2].value - points[1].value,
                          points[2].time - points[1].time))))
    ELSE FreezeIfZero(ScalarOfRatio(length, ratio))

\* "Look for speed effects..." in _transcribe_operation_group.
OperationEffect(group) ==
    IF group.is_time_warp THEN
        IF group.name = "Motion Control" THEN
            IF group.has_ratio
                THEN _transcribe_linear_timewarp(group.length, group.ratio,
                                                 group.points)
                ELSE _transcribe_fancy_timewarp
        ELSE Made(Effect("TimeEffect", NoScalar))
    ELSE Made(Effect("Effect", NoScalar))

\* The OperationGroups of a file: every Motion Control time warp with a
\* SpeedRatio, and one of each other sort.
ControlPoints == [time : 0..1, value : 0..MaxValue]

RECURSIVE PointLists(_)
PointLists(n) ==
    IF n = 0 THEN {<<>>}
    ELSE PointLists(n - 1)
         \cup {Append(l, p) : l \in {k \in PointLists(n - 1) : Len(k) = n - 1},
                              p \in ControlPoints}

RatioStrings ==
    {str(n) : n \in 0..MaxLength}
    \cup {str(n) \o <<"/">> \o str(d) : n \in 0..MaxValue, d \in 0..MaxValue}
    \cup {<<"/">>, <<"1", "/">>}

Group(is_time_warp, name, has_ratio, length, ratio, points) ==
    [is_time_warp |-> is_time_warp, name |-> name, has_ratio |-> has_ratio,
     length |-> length, ratio |-> ratio, points |-> points]

EGroups ==
    {Group(TRUE, "Motion Control", TRUE, length, ratio, points) :
        length \in {0, MaxLength - 1, MaxLength}, ratio \in RatioStrings,
        points \in PointLists(MaxPoints)}
    \cup {Group(is_time_warp, name, FALSE, MaxLength, <<>>, points) :
            is_time_warp \in BOOLEAN, name \in {"Motion Control", "Audio Pan"},
            points \in PointLists(1)}

EInit ==
    /\ ePhase = "idle"
    /\ eGroup = Group(FALSE, "", FALSE, 0, <<>>, <<>>)
    /\ eOut = NotMade("none")

\* _transcribe reaches an OperationGroup of the file.
EOpen ==
    /\ ePhase = "idle"
    /\ eGroup' \in EGroups
    /\ ePhase' = "open"
    /\ UNCHANGED eOut

\* _transcribe_operation_group gives the group its effect.
EClassify ==
    /\ ePhase = "open"
    /\ eOut' = OperationEffect(eGroup)
    /\ ePhase' = "done"
    /\ UNCHANGED eGroup

ENext ==
    \/ EOpen /\ UNCHANGED <<sVars, wVars, rVars, hVars, tVars, mVars, fVars, pVars>>
    \/ EClassify /\ UNCHANGED <<sVars, wVars, rVars, hVars, tVars, mVars, fVars, pVars>>

----------------------------------------------------------------------------
(* _attach_markers on one timeline.  The timeline is the tracks of its     *)
(* stack and the markers of the stack itself; a track is [slot_id, number, *)
(* ranged, ch, mk] with number 0 for a track without PhysicalTrackNumber   *)
(* and ranged FALSE when it holds a clip whose range cannot be computed;   *)
(* a child is [type, start, dur, inoff, outoff, mk] with the start and the *)
(* duration of its source range; a marker is [name, slot_id, number,       *)
(* start, dur].  The tracks carry no source range of their own, and the    *)
(* times of opentimelineio's Composition are taken as its documentation    *)
(* gives them.                                                             *)

MTrack(slot_id, number, ranged, ch, mk) ==
    [slot_id |-> slot_id, number |-> number, ranged |-> ranged, ch |-> ch,
     mk |-> mk]

MChild(type, start, dur, inoff, outoff) ==
    [type |-> type, start |-> start, dur |-> dur, inoff |-> inoff,
     outoff |-> outoff, mk |-> <<>>]

Marker(name, slot_id, number, start) ==
    [name |-> name, slot_id |-> slot_id, number |-> number, start |-> start,
     dur |-> 1]

\* range_in_parent() of the child at an index of a track: an item starts
\* where the items before it end, a Transition lies around its cut.
RECURSIVE RangeInParent(_, _)
RangeInParent(track, i) ==
    LET cut == IF i = 1 THEN 0
               ELSE IF track.ch[i - 1].type = "Transition"
                   THEN RangeInParent(track, i - 1)[1] + track.ch[i - 1].inoff
               ELSE EndOf(RangeInParent(track, i - 1))
    IN  IF track.ch[i].type = "Transition"
            THEN <<cut - track.ch[i].inoff,
                   track.ch[i].inoff + track.ch[i].outoff>>
            ELSE <<cut, track.ch[i].dur>>

Contains(range, time) == range[1] <= time /\ time < EndOf(range)

\* Track.child_at_time: the index of the first child whose range holds the
\* time, 0 for None.
child_at_time(track, time) ==
    IF \E i \in 1..Len(track.ch) : Contains(RangeInParent(track, i), time)
        THEN CHOOSE i \in 1..Len(track.ch) :
                /\ Contains(RangeInParent(track, i), time)
                /\ \A j \in 1..(i - 1) : ~Contains(RangeInParent(track, j), time)
        ELSE 0

\* parent[index - 1] of Python: the last child for the first index.
Before(track, i) == IF i = 1 THEN Len(track.ch) ELSE i - 1

\* _find_child_at_time: the exception, or the index of the item (0 for
\* None); a Transition gives way to the sibling before it if that holds
\* the time, to the one after it otherwise.
_find_child_at_time(target_track, start_time) ==
    LET i == child_at_time(target_track, start_time)
    IN  IF ~target_track.ranged
            THEN [raised |-> "CannotComputeAvailableRangeError", at |-> 0]
        ELSE IF i = 0 \/ target_track.ch[i].type # "Transition"
            THEN [raised |-> "none", at |-> i]
        ELSE IF Contains(RangeInParent(target_track, Before(target_track, i)),
                         start_time)
            THEN [raised |-> "none", at |-> Before(target_track, i)]
        ELSE IF i = Len(target_track.ch)
            THEN [raised |-> "IndexError", at |-> 0]
        ELSE [raised |-> "none", at |-> i + 1]

\* tracks_map.get((slot_id, track_number)): the last track with the key
\* among those that have a PhysicalTrackNumber, 0 for None.
TargetTrack(tracks, marker) ==
    IF \E k \in 1..Len(tracks) :
          tracks[k].number # 0 /\ tracks[k].slot_id = marker.slot_id
             /\ tracks[k].number = marker.number
        THEN CHOOSE k \in 1..Len(tracks) :
                /\ tracks[k].number # 0 /\ tracks[k].slot_id = marker.slot_id
                /\ tracks[k].number = marker.number
                /\ \A j \in (k + 1)..Len(tracks) :
                      ~(tracks[j].number # 0
                        /\ tracks[j].slot_id = marker.slot_id
                        /\ tracks[j].number = marker.number)
        ELSE 0

\* markers.remove(marker).
Without(markers, marker) ==
    SelectSeq(markers, LAMBDA other : other.name # marker.name)

\* A faulty variant of transformed_time: the item's source range is left
\* out of account.
transformed_time_in_track(time, track, i) ==
    time - RangeInParent(track, i)[1]

\* current_track.transformed_time(time, item) for an item of a track of
\* the same stack: off the item's place in the track, onto its source range.
transformed_time(time, track, i) ==
    time + track.ch[i].start - RangeInParent(track, i)[1]

\* A faulty variant of the body of the loop: a marker whose item cannot be
\* searched for or cannot carry markers is left where it was found.
AttachMarker_left_in_place(tl, c, marker) ==
    LET removed == [tl EXCEPT !.tracks[c].mk = Without(@, marker)]
        t       == TargetTrack(tl.tracks, marker)
        found   == _find_child_at_time(tl.tracks[t], marker.start)
    IN  IF t = 0 THEN [removed EXCEPT !.mk = Append(@, marker)]
        ELSE IF found.raised = "CannotComputeAvailableRangeError" THEN tl
        ELSE IF found.raised # "none"
            THEN [removed EXCEPT !.raised = found.raised]
        ELSE IF found.at = 0 \/ tl.tracks[t].ch[found.at].type = "Transition"
            THEN tl
        ELSE [removed EXCEPT !.tracks[t].ch[found.at].mk =
                 Append(@, [marker EXCEPT !.start =
                               transformed_time(marker.start, tl.tracks[t],
                                                found.at)])]

\* The body of the loop over the markers of the current track.
AttachMarker(tl, c, marker) ==
    LET removed == [tl EXCEPT !.tracks[c].mk = Without(@, marker),
                              !.picked = Append(@, marker.name)]
        t       == TargetTrack(tl.tracks, marker)
        found   == _find_child_at_time(tl.tracks[t], marker.start)
    IN  IF t = 0 THEN [removed EXCEPT !.mk = Append(@, marker)]
        ELSE IF found.raised = "CannotComputeAvailableRangeError"
            THEN [removed EXCEPT !.tracks[t].mk = Append(@, marker)]
        ELSE IF found.raised # "none"
            THEN [removed EXCEPT !.raised = found.raised]
        ELSE IF found.at = 0 \/ tl.tracks[t].ch[found.at].type = "Transition"
            THEN [removed EXCEPT !.tracks[t].mk = Append(@, marker)]
        ELSE [removed EXCEPT !.tracks[t].ch[found.at].mk =
                 Append(@, [marker EXCEPT !.start =
                               transformed_time(marker.start, tl.tracks[t],
                                                found.at)])]

\* "for current_track in ...: for marker in list(current_track.markers)":
\* the markers a track has when the loop reaches it, one after the other.
RECURSIVE AttachFrom(_, _, _)
AttachFrom(tl, c, pending) ==
    IF tl.raised # "none" THEN tl
    ELSE IF pending # <<>>
        THEN AttachFrom(AttachMarker(tl, c, Head(pending)), c, Tail(pending))
    ELSE IF c = Len(tl.tracks) THEN tl
    ELSE AttachFrom(tl, c + 1, tl.tracks[c + 1].mk)

_attach_markers(tl) ==
    IF tl.tracks = <<>> THEN tl ELSE AttachFrom(tl, 1, tl.tracks[1].mk)

\* The timelines handed to the pass: a track of slot 1 with one of the
\* layouts, with or without a track of slot 2, and the track of an event
\* slot that holds the markers, before or after them.
MLayouts ==
    {<<>>,
     <<MChild("Clip", 1, 2, 0, 0), MChild("Gap", 0, 2, 0, 0)>>,
     <<MChild("Clip", 2, 2, 0, 0), MChild("Transition", 0, 0, 1, 1),
       MChild("Clip", 0, 2, 0, 0)>>,
     <<MChild("Transition", 0, 0, 0, 1), MChild("Clip", 3, 2, 0, 0),
       MChild("Gap", 0, 1, 0, 0)>>,
     <<MChild("Clip", 1, 2, 0, 0), MChild("Transition", 0, 0, 1, 1)>>}

MMarkers ==
    {<<Marker("a", slot_id, number, start)>> :
        slot_id \in 1..3, number \in 1..2, start \in 0..MaxTime}
    \cup {<<Marker("a", 1, 1, start), Marker("b", 2, 1, other)>> :
            start \in 0..MaxTime, other \in {0, MaxTime}}

MContent ==
    {<<MTrack(1, number, ranged, ch, <<>>)>> :
        number \in 0..1, ranged \in BOOLEAN, ch \in MLayouts}
    \cup {<<MTrack(1, 1, TRUE, ch, <<>>), MTrack(2, 1, TRUE, other, <<>>)>> :
            ch \in MLayouts, other \in MLayouts}
    \cup {<<MTrack(1, 1, TRUE, ch, <<>>), MTrack(1, 1, TRUE, other, <<>>)>> :
            ch \in MLayouts, other \in MLayouts}

\* A timeline: its tracks, the markers of its stack, the exception that
\* left the pass, and the markers the pass has taken off a track, in order.
MTimeline(tracks) ==
    [tracks |-> tracks, mk |-> <<>>, raised |-> "none", picked |-> <<>>]

MTimelines ==
    {MTimeline(content \o <<MTrack(4, 1, TRUE, <<>>, markers)>>) :
        content \in MContent, markers \in MMarkers}
    \cup {MTimeline(<<MTrack(4, 1, TRUE, <<>>, markers)>> \o content) :
            content \in MContent, markers \in MMarkers}

MInit ==
    /\ mPhase = "idle"
    /\ mIn = MTimeline(<<>>)
    /\ mOut = MTimeline(<<>>)

\* read_from_file has the timeline of the file, its transitions fixed.
MOpen ==
    /\ mPhase = "idle"
    /\ mIn' \in MTimelines
    /\ mPhase' = "open"
    /\ UNCHANGED mOut

\* "if attach_markers: timeline = _attach_markers(timeline)".
MAttach ==
    /\ mPhase = "open"
    /\ mOut' = _attach_markers(mIn)
    /\ mPhase' = "done"
    /\ UNCHANGED mIn

\* The timelines of master mobs: no slot of a master mob has a Transition.
MMobTimelines ==
    {tl \in MTimelines :
        \A c \in 1..Len(tl.tracks) : \A i \in 1..Len(tl.tracks[c].ch) :
            tl.tracks[c].ch[i].type # "Transition"}

\* _transcribe_master_mob: the slots of the mob are made into the tracks of
\* its timeline, then "_attach_markers(mob_timeline, indent)", whatever
\* the arguments of the read are.
MTranscribeMasterMob ==
    /\ mPhase = "idle"
    /\ \E mob_timeline \in MMobTimelines :
        /\ mIn' = mob_timeline
        /\ mOut' = _attach_markers(mob_timeline)
    /\ mPhase' = "mob"

\* "if attach_markers:" with attach_markers false: the pass is left out,
\* for the timeline of a composition mob and for that of a master mob.
MSkipAttach ==
    /\ mPhase \in {"open", "mob"}
    /\ mOut' = IF mPhase = "open" THEN mIn ELSE mOut
    /\ mPhase' = "unattached"
    /\ UNCHANGED mIn

\* "if attach_markers: timeline = _attach_markers(timeline)" for the
\* timeline of a master mob, which has been through the pass once.
MAttachMob ==
    /\ mPhase = "mob"
    /\ mOut.raised = "none"
    /\ mOut' = _attach_markers(mOut)
    /\ mPhase' = "mob_done"
    /\ UNCHANGED mIn

MNext ==
    \/ MOpen /\ UNCHANGED <<sVars, wVars, rVars, hVars, tVars, eVars, fVars, pVars>>
    \/ MAttach /\ UNCHANGED <<sVars, wVars, rVars, hVars, tVars, eVars, fVars, pVars>>
    \/ MTranscribeMasterMob /\ UNCHANGED <<sVars, wVars, rVars, hVars, tVars, eVars, fVars, pVars>>
    \/ MSkipAttach /\ UNCHANGED <<sVars, wVars, rVars, hVars, tVars, eVars, fVars, pVars>>
    \/ MAttachMob /\ UNCHANGED <<sVars, wVars, rVars, hVars, tVars, eVars, fVars, pVars>>

----------------------------------------------------------------------------
(* read_from_file on a graph of mobs.  A mob is its class, its usage and   *)
(* the mobs its slots' SourceClips point at, in the order of the slots; a  *)
(* mob ID is the mob's place in the content storage.  _transcribe is       *)
(* followed call by call: a composition mob under transcription is a frame *)
(* of fStack, with the number of its SourceClips done.                     *)

MaxFileMobs == 2
MaxRefs == 1

\* The depth at which the interpreter ends a recursion with RecursionError.
RecursionLimit == MaxFileMobs + 2

MobClasses == {"CompositionMob", "MasterMob", "SourceMob"}

FileMob(cls, usage, refs) == [cls |-> cls, usage |-> usage, refs |-> refs]

\* The mobs a file of n mobs can hold; the references of a mob are listed
\* in the order of the mobs in the file, and a mob can be referenced twice.
MobRecords(n) ==
    {FileMob(cls, usage, refs) :
        cls \in MobClasses, usage \in {"Usage_TopLevel", "None"},
        refs \in {r \in UNION {[1..k -> 1..n] : k \in 0..MaxRefs} :
                    \A i, j \in DOMAIN r : i < j => r[i] <= r[j]}}

\* A usage is kept on composition mobs, and the chain of a source mob is
\* not followed past it.
Files ==
    UNION {{f \in [1..n -> MobRecords(n)] :
               \A m \in 1..n :
                   /\ f[m].cls # "CompositionMob" => f[m].usage = "None"
                   /\ f[m].cls = "SourceMob" => f[m].refs = <<>>} :
           n \in 0..MaxFileMobs}

MobsOfClass(file, classes, usages) ==
    SelectSeq([m \in 1..Len(file) |-> m],
              LAMBDA m : file[m].cls \in classes /\ file[m].usage \in usages)

_get_mobs_for_transcription(file) ==
    LET top_level_mobs ==
            MobsOfClass(file, {"CompositionMob"}, {"Usage_TopLevel"})
        composition_mobs ==
            MobsOfClass(file, {"CompositionMob"}, {"Usage_TopLevel", "None"})
        master_mobs == MobsOfClass(file, {"MasterMob"}, {"None"})
    IN  IF Len(top_level_mobs) > 0 THEN top_level_mobs
        ELSE IF Len(composition_mobs) > 0 THEN composition_mobs
        ELSE IF Len(master_mobs) > 0 THEN master_mobs
        ELSE <<>>

RECURSIVE ChainFrom(_, _, _)
\* _get_source_mob_reference_chain from a SourceClip that points at mob:
\* the mobs of the chain, followed for at most n links.
ChainFrom(file, mob, n) ==
    IF n = 0 THEN <<mob>>
    ELSE IF file[mob].refs = <<>> THEN <<mob>>
    ELSE <<mob>> \o ChainFrom(file, file[mob].refs[1], n - 1)

\* The chain of one of the mob's SourceClips never ends: it comes back to a
\* mob it has passed.
ChainLoops(file, mob) ==
    \E i \in 1..Len(file[mob].refs) :
        Len(ChainFrom(file, file[mob].refs[i], Len(file) + 1)) > Len(file) + 1

MobName(m) == CASE m = 1 -> "mob1" [] m = 2 -> "mob2" [] OTHER -> "mob3"

\* The Timeline of a mob, and the SerializableCollection of the iterable
\* branch of _transcribe: one entry for each mob of the list.
MobTimeline(m) == [Timeline(Node("Stack", <<>>)) EXCEPT !.name = MobName(m)]

TranscribedList(mobs) == Collection([i \in 1..Len(mobs) |-> MobTimeline(mobs[i])])

SimplifiedIfAsked_always(timeline, simplify) ==
    _simplify(timeline, "None", FALSE)

\* "if simplify: timeline = _simplify(timeline)".
SimplifiedIfAsked(timeline, simplify) ==
    IF simplify THEN _simplify(timeline, "None", FALSE) ELSE timeline

NoValue == Node("None", <<>>)

FInit ==
    /\ fPhase = "idle"
    /\ fFile = <<>>
    /\ fOpt = [attach_markers |-> TRUE, simplify |-> TRUE]
    /\ fTop = <<>>
    /\ fPos = 0
    /\ fStack = <<>>
    /\ fCache = {}
    /\ fCount = <<>>
    /\ fLog = <<>>
    /\ fOut = [err |-> "none", value |-> NoValue]

\* read_from_file is called: the cache is emptied and the file is opened.
FOpen ==
    /\ fPhase = "idle"
    /\ \E file \in Files, attach_markers \in BOOLEAN, simplify \in BOOLEAN :
        /\ fFile' = file
        /\ fOpt' = [attach_markers |-> attach_markers, simplify |-> simplify]
        /\ fCount' = [m \in 1..Len(file) |-> 0]
    /\ fCache' = {}
    /\ fPhase' = "pre"
    /\ UNCHANGED <<fTop, fPos, fStack, fLog, fOut>>

\* hooks.run_pre_read_transcribe_hook, then _get_mobs_for_transcription.
FPreReadHook ==
    /\ fPhase = "pre"
    /\ fLog' = Append(fLog, "pre_read_hook")
    /\ fTop' = _get_mobs_for_transcription(fFile)
    /\ fPhase' = "transcribe"
    /\ UNCHANGED <<fFile, fOpt, fPos, fStack, fCache, fCount, fOut>>

\* A call of _transcribe on a mob is due: the next mob of the list, or the
\* mob of the next SourceClip of the composition mob under transcription.
Requesting ==
    /\ fPhase = "transcribe"
    /\ IF fStack = <<>> THEN fPos < Len(fTop)
       ELSE fStack[Len(fStack)].at < Len(fFile[fStack[Len(fStack)].mob].refs)

Requested ==
    IF fStack = <<>> THEN fTop[fPos + 1]
    ELSE fFile[fStack[Len(fStack)].mob].refs[fStack[Len(fStack)].at + 1]

\* The caller goes on behind the call that has returned.
Resumed(stack) ==
    IF stack = <<>> THEN stack
    ELSE [stack EXCEPT ![Len(stack)].at = @ + 1]

Counted(m) == [fCount EXCEPT ![m] = @ + 1]

\* "result = _MOB_TIMELINE_CACHE.get(item.mob_id, None); if result:".
FReuse ==
    /\ Requesting
    /\ fFile[Requested].cls \in {"MasterMob", "CompositionMob"}
    /\ Requested \in fCache
    /\ fStack' = Resumed(fStack)
    /\ fPos' = IF fStack = <<>> THEN fPos + 1 ELSE fPos
    /\ UNCHANGED <<fPhase, fFile, fOpt, fTop, fCache, fCount, fLog, fOut>>

\* A SourceClip whose mob is a SourceMob: no call of _transcribe, a Gap.
FUnresolved ==
    /\ Requesting
    /\ fStack # <<>>
    /\ fFile[Requested].cls = "SourceMob"
    /\ fStack' = Resumed(fStack)
    /\ UNCHANGED <<fPhase, fFile, fOpt, fTop, fPos, fCache, fCount, fLog, fOut>>

\* A master mob that is not in the cache: _transcribe_master_mob follows
\* the chain of each SourceClip, then the timeline is put in the cache.
FMasterMob ==
    /\ Requesting
    /\ fFile[Requested].cls = "MasterMob"
    /\ Requested \notin fCache
    /\ fCount' = Counted(Requested)
    /\ IF ChainLoops(fFile, Requested)
          THEN /\ fPhase' = "raised"
               /\ fOut' = [err |-> "RecursionError", value |-> NoValue]
               /\ UNCHANGED <<fStack, fPos, fCache>>
          ELSE /\ fCache' = fCache \cup {Requested}
               /\ fStack' = Resumed(fStack)
               /\ fPos' = IF fStack = <<>> THEN fPos + 1 ELSE fPos
               /\ UNCHANGED <<fPhase, fOut>>
    /\ UNCHANGED <<fFile, fOpt, fTop, fLog>>

\* A composition mob that is not in the cache: a new Timeline, and the
\* loop over the slots begins.
FCompositionMob ==
    /\ Requesting
    /\ fFile[Requested].cls = "CompositionMob"
    /\ Requested \notin fCache
    /\ fCount' = Counted(Requested)
    /\ IF Len(fStack) = RecursionLimit
          THEN /\ fPhase' = "raised"
               /\ fOut' = [err |-> "RecursionError", value |-> NoValue]
               /\ UNCHANGED fStack
          ELSE /\ fStack' = Append(fStack, [mob |-> Requested, at |-> 0])
               /\ UNCHANGED <<fPhase, fOut>>
    /\ UNCHANGED <<fFile, fOpt, fTop, fPos, fCache, fLog>>

\* The loop over the slots of the composition mob is through:
\* "_MOB_TIMELINE_CACHE[item.mob_id] = result", and the call returns.
FStore ==
    /\ fPhase = "transcribe"
    /\ fStack # <<>>
    /\ fStack[Len(fStack)].at = Len(fFile[fStack[Len(fStack)].mob].refs)
    /\ fCache' = fCache \cup {fStack[Len(fStack)].mob}
    /\ fStack' = Resumed(SubSeq(fStack, 1, Len(fStack) - 1))
    /\ fPos' = IF Len(fStack) = 1 THEN fPos + 1 ELSE fPos
    /\ UNCHANGED <<fPhase, fFile, fOpt, fTop, fCount, fLog, fOut>>

\* The list is transcribed; hooks.run_post_read_transcribe_hook, and the
\* file is closed.
FPostReadHook ==
    /\ fPhase = "transcribe"
    /\ fStack = <<>>
    /\ fPos = Len(fTop)
    /\ fLog' = fLog \o <<"_transcribe", "post_read_hook">>
    /\ fOut' = [fOut EXCEPT !.value = TranscribedList(fTop)]
    /\ fPhase' = "fix"
    /\ UNCHANGED <<fFile, fOpt, fTop, fPos, fStack, fCache, fCount>>

\* "_fix_transitions(timeline)".
FFixTransitions ==
    /\ fPhase = "fix"
    /\ fLog' = Append(fLog, "_fix_transitions")
    /\ fPhase' = "markers"
    /\ UNCHANGED <<fFile, fOpt, fTop, fPos, fStack, fCache, fCount, fOut>>

FAttachMarkers_unasked ==
    /\ fPhase = "markers"
    /\ fLog' = Append(fLog, "_attach_markers")
    /\ fPhase' = "simplify"
    /\ UNCHANGED <<fFile, fOpt, fTop, fPos, fStack, fCache, fCount, fOut>>

\* "if attach_markers: timeline = _attach_markers(timeline)": the pass over
\* the whole result.  (The pass that _transcribe_master_mob makes over the
\* timeline of one master mob is part of the transcription of that mob.)
FAttachMarkers ==
    /\ fPhase = "markers"
    /\ fLog' = IF fOpt.attach_markers THEN Append(fLog, "_attach_markers")
               ELSE fLog
    /\ fPhase' = "simplify"
    /\ UNCHANGED <<fFile, fOpt, fTop, fPos, fStack, fCache, fCount, fOut>>

\* "if simplify: timeline = _simplify(timeline)", the cache is emptied and
\* the timeline is returned.
FSimplifyAndReturn ==
    /\ fPhase = "simplify"
    /\ fLog' = IF fOpt.simplify THEN Append(fLog, "_simplify") ELSE fLog
    /\ fOut' = [fOut EXCEPT !.value = SimplifiedIfAsked(@, fOpt.simplify)]
    /\ fCache' = {}
    /\ fPhase' = "returned"
    /\ UNCHANGED <<fFile, fOpt, fTop, fPos, fStack, fCount>>

FNext ==
    \/ FOpen /\ UNCHANGED <<sVars, wVars, rVars, hVars, tVars, eVars, mVars, pVars>>
    \/ FPreReadHook /\ UNCHANGED <<sVars, wVars, rVars, hVars, tVars, eVars, mVars, pVars>>
    \/ FReuse /\ UNCHANGED <<sVars, wVars, rVars, hVars, tVars, eVars, mVars, pVars>>
    \/ FUnresolved /\ UNCHANGED <<sVars, wVars, rVars, hVars, tVars, eVars, mVars, pVars>>
    \/ FMasterMob /\ UNCHANGED <<sVars, wVars, rVars, hVars, tVars, eVars, mVars, pVars>>
    \/ FCompositionMob /\ UNCHANGED <<sVars, wVars, rVars, hVars, tVars, eVars, mVars, pVars>>
    \/ FStore /\ UNCHANGED <<sVars, wVars, rVars, hVars, tVars, eVars, mVars, pVars>>
    \/ FPostReadHook /\ UNCHANGED <<sVars, wVars, rVars, hVars, tVars, eVars, mVars, pVars>>
    \/ FFixTransitions /\ UNCHANGED <<sVars, wVars, rVars, hVars, tVars, eVars, mVars, pVars>>
    \/ FAttachMarkers /\ UNCHANGED <<sVars, wVars, rVars, hVars, tVars, eVars, mVars, pVars>>
    \/ FSimplifyAndReturn /\ UNCHANGED <<sVars, wVars, rVars, hVars, tVars, eVars, mVars, pVars>>

----------------------------------------------------------------------------
(* Two passes over a whole tree, each on its own: _fix_transitions of the  *)
(* reader and _stackify_nested_groups of the writer, on timelines of one   *)
(* top-level track whose children are nested up to three deep.            *)

MaxKids == 3
MaxInner == 2

PSeqs(S, n) == UNION {[1..k -> S] : k \in 1..n}

PLeaf == Clip("A", 0, 4)

PTransition == Transition(1, 2)

\* The nested compositions: Tracks of clips and Transitions in which no
\* Transition follows a Transition, and Stacks of clips.
PInner ==
    {Node("Track", s) :
        s \in {s \in PSeqs({PLeaf, PTransition}, MaxInner) :
                  \A i \in 1..(Len(s) - 1) :
                      ~(s[i] = PTransition /\ s[i + 1] = PTransition)}}
    \cup {Node("Stack", s) : s \in PSeqs({PLeaf}, MaxInner)}

PDeep ==
    {Node("Track", <<Node("Track", <<PTransition, PLeaf>>)>>),
     Node("Stack", <<Node("Track", <<PLeaf, PTransition>>)>>)}

PTimelines ==
    {Timeline(Node("Stack", <<Node("Track", s)>>)) :
        s \in PSeqs({PLeaf, PTransition} \cup PInner \cup PDeep, MaxKids)}

\* What the node named "X" holds: nothing, clips, or tracks of clips.
XKids ==
    {<<>>, <<PLeaf>>, <<PLeaf, Clip("B", 0, 4)>>,
     <<Node("Track", <<PLeaf>>)>>,
     <<Node("Track", <<PLeaf>>), Node("Track", <<Clip("B", 0, 4)>>)>>}

\* The nodes named "X": a Track or a Stack, or a Gap, with one of the
\* attributes that make a node valuable.
XNodes ==
    {WithFeature([Node(t, kids) EXCEPT !.name = "X"], f) :
        t \in {"Track", "Stack"}, kids \in XKids,
        f \in {"effect", "timewarp", "marker", "comments"}}
    \cup {WithFeature([Gap(2) EXCEPT !.name = "X"], f) :
              f \in {"effect", "marker"}}

\* The places of a node in a timeline: alone in a top-level track, behind
\* a clip, in a nested Stack alone and beside a track, in a nested Track,
\* and right below the root stack.
Placed(x) ==
    {Timeline(Node("Stack", <<Node("Track", <<x>>)>>)),
     Timeline(Node("Stack", <<Node("Track", <<Clip("B", 0, 4), x>>)>>)),
     Timeline(Node("Stack", <<Node("Track", <<Node("Stack", <<x>>)>>)>>)),
     Timeline(Node("Stack", <<Node("Track",
         <<Node("Stack", <<x, Node("Track", <<Clip("B", 0, 4)>>)>>)>>)>>)),
     Timeline(Node("Stack", <<Node("Track",
         <<Clip("B", 0, 4), Node("Track", <<x, Clip("B", 0, 4)>>)>>)>>)),
     Timeline(Node("Stack", <<Node("Track", <<Clip("B", 0, 4)>>), x>>))}

PTagged == UNION {Placed(x) : x \in XNodes}

RECURSIVE FoundFrom(_, _, _, _)
\* Composition.find_children() from the child at c on: every descendant,
\* a composition before what it holds, with the type of its parent, its
\* depth below the track and the child of the track it lies in.
FoundFrom(parent, c, top, depth) ==
    IF c > Len(parent.ch) THEN <<>>
    ELSE LET child == parent.ch[c]
             t == IF depth = 1 THEN c ELSE top
         IN  <<[node |-> child, ptype |-> parent.type, top |-> t,
                depth |-> depth]>>
             \o (IF IsComposition(child) THEN FoundFrom(child, 1, t, depth + 1)
                 ELSE <<>>)
             \o FoundFrom(parent, c + 1, top, depth)

\* track.remove(child) of a child of the track.
RemovedKid(kids, id) == SelectSeq(kids, LAMBDA k : k.id # id)

\* track.insert(i, stack): behind the end when i is not an index.
InsertedKid(kids, i, kid) ==
    IF i >= Len(kids) THEN Append(kids, kid)
    ELSE SubSeq(kids, 1, i) \o <<kid>> \o SubSeq(kids, i + 1, Len(kids))

RECURSIVE StackifyFrom(_, _, _)
\* The loop "for i, child in enumerate(track.find_children())" from the
\* i-th descendant on (i counts from 1 here, from 0 in the code); kids are
\* the children of the track, each with the place it had at first.
StackifyFrom(found, i, kids) ==
    IF i > Len(found) THEN [raised |-> "none", kids |-> kids]
    ELSE LET child == found[i]
             is_nested == child.node.type = "Track"
             is_parent_in_stack == child.ptype = "Stack"
         IN  IF ~(is_nested /\ ~is_parent_in_stack)
                 THEN StackifyFrom(found, i + 1, kids)
             ELSE IF child.depth > 1
                 THEN [raised |-> "ValueError", kids |-> kids]
             ELSE StackifyFrom(found, i + 1,
                      InsertedKid(RemovedKid(kids, child.top), i - 1,
                                  [id |-> 0,
                                   node |-> Node("Stack", <<child.node>>)]))

StackifiedTrack(track) ==
    LET done == StackifyFrom(FoundFrom(track, 1, 0, 1), 1,
                             [c \in 1..Len(track.ch) |->
                                 [id |-> c, node |-> track.ch[c]]])
    IN  [raised |-> done.raised,
         value |-> [track EXCEPT !.ch = [k \in 1..Len(done.kids) |->
                                            done.kids[k].node]]]

\* _stackify_nested_groups on trees of any depth: the copy of the timeline
\* with every top-level track gone through the loop, or the exception of
\* the first track that raises one.
StackifiedCopy(timeline) ==
    LET tracks == timeline.ch[1].ch
        done == [t \in 1..Len(tracks) |-> StackifiedTrack(tracks[t])]
    IN  IF \E t \in 1..Len(tracks) : done[t].raised # "none"
            THEN [raised |-> "ValueError", value |-> NoValue]
        ELSE [raised |-> "none",
              value |-> [timeline EXCEPT !.ch[1].ch =
                            [t \in 1..Len(tracks) |-> done[t].value]]]

PInit ==
    /\ pPhase = "idle"
    /\ pIn = NoValue
    /\ pOut = [raised |-> "none", value |-> NoValue]

POpen ==
    /\ pPhase = "idle"
    /\ pIn' \in PTimelines
    /\ pPhase' = "open"
    /\ UNCHANGED pOut

POpenTagged ==
    /\ pPhase = "idle"
    /\ pIn' \in PTagged
    /\ pPhase' = "tagged"
    /\ UNCHANGED pOut

\* "timeline = _simplify(timeline)" in read_from_file.
PSimplify ==
    /\ pPhase = "tagged"
    /\ pOut' = [raised |-> "none", value |-> _simplify(pIn, "None", FALSE)]
    /\ pPhase' = "simplified"
    /\ UNCHANGED pIn

\* "_fix_transitions(timeline)" in read_from_file.
PFixTransitions ==
    /\ pPhase = "open"
    /\ pOut' = [raised |-> "none", value |-> _fix_transitions(pIn)]
    /\ pPhase' = "fixed"
    /\ UNCHANGED pIn

\* "timeline = aaf_writer._stackify_nested_groups(hook_tl)" in write_to_file.
PStackify ==
    /\ pPhase = "open"
    /\ pOut' = StackifiedCopy(pIn)
    /\ pPhase' = "stackified"
    /\ UNCHANGED pIn

PNext ==
    \/ POpen /\ UNCHANGED <<sVars, wVars, rVars, hVars, tVars, eVars, mVars, fVars>>
    \/ PFixTransitions /\ UNCHANGED <<sVars, wVars, rVars, hVars, tVars, eVars, mVars, fVars>>
    \/ PStackify /\ UNCHANGED <<sVars, wVars, rVars, hVars, tVars, eVars, mVars, fVars>>
    \/ POpenTagged /\ UNCHANGED <<sVars, wVars, rVars, hVars, tVars, eVars, mVars, fVars>>
    \/ PSimplify /\ UNCHANGED <<sVars, wVars, rVars, hVars, tVars, eVars, mVars, fVars>>

----------------------------------------------------------------------------
(* The specifications: the simplifier on the trees of the reader,          *)
(* write_to_file on the timelines handed to it, and read_from_file called  *)
(* again and again in one process.                                         *)

XInit == HInit /\ TInit /\ EInit /\ MInit /\ FInit /\ PInit

Init == SInit /\ WInit /\ RInit /\ XInit

SpecSimplify == Init /\ [][SNext]_vars

SpecWrite == Init /\ [][WNext]_vars

SpecRead == Init /\ [][RNext]_vars

SpecHooks == Init /\ [][HNext]_vars

SpecTranscribe == Init /\ [][TNext]_vars

SpecEffect == Init /\ [][ENext]_vars

SpecMarkers == Init /\ [][MNext]_vars

SpecReadFile == Init /\ [][FNext]_vars

SpecPasses == Init /\ [][PNext]_vars

----------------------------------------------------------------------------
(* Properties of the simplifier.                                           *)

Simplified == sPhase \in {"once", "twice"}

OfTimeline == sKind \in {"Timeline", "RootStack"}

\* The root stack of a simplified timeline.
RootOut == sOut1.ch[1]

\* C2: simplification is idempotent: for any tree T (timeline, collection,
\* stack or track) _simplify(_simplify(T)) equals _simplify(T).
C2_Idempotent == sPhase = "twice" => sOut2 = sOut1

\* C3: after _simplify of any timeline every direct child of the root stack
\* is a Track, never a bare Clip, Gap or Stack; a top-level Track that holds
\* a single item is not collapsed into that item.
C3_RootChildrenAreTracks ==
    Simplified /\ OfTimeline /\ ~HasRaise(sOut1) =>
        /\ sOut1.type = "Timeline"
        /\ RootOut.type = "Stack"
        /\ \A i \in 1..Len(RootOut.ch) : RootOut.ch[i].type = "Track"

\* A timeline whose root stack held a bare Clip, simplified: the Clip sits
\* alone in a top-level Track.
C3_Witness ==
    /\ Simplified /\ sKind = "Timeline"
    /\ Len(sWork) = 1 /\ sWork[1].type = "Clip"
    /\ Len(RootOut.ch) = 1
    /\ RootOut.ch[1].type = "Track"
    /\ RootOut.ch[1].ch = <<sWork[1]>>

TrackOf(x) == Node("Track", <<x>>)

StackOf(x) == Node("Stack", <<x>>)

\* Track[Stack[Track[Clip]]] and Track[Stack[Track[Track[Clip]]]].
ShapeA(clip) == TrackOf(StackOf(TrackOf(clip)))

ShapeB(clip) == TrackOf(StackOf(TrackOf(TrackOf(clip))))

PlainClips == {c \in PlainLeaves : c.type = "Clip"}

\* C4: for a root stack whose only child is Track[Stack[Track[Clip]]] or
\* Track[Stack[Track[Track[Clip]]]], without effects, markers or valuable
\* metadata, _simplify yields a root stack whose first child is a Track
\* whose first child is the Clip.
C4_WrappersCollapse ==
    \A clip \in PlainClips :
        Simplified /\ sKind = "Timeline"
            /\ sWork \in {<<ShapeA(clip)>>, <<ShapeB(clip)>>} =>
                /\ Len(RootOut.ch) >= 1
                /\ RootOut.ch[1].type = "Track"
                /\ Len(RootOut.ch[1].ch) >= 1
                /\ RootOut.ch[1].ch[1] = clip

C4_Witness ==
    \E clip \in PlainClips :
        /\ Simplified /\ sKind = "Timeline"
        /\ sWork = <<ShapeA(clip)>>
        /\ RootOut.ch[1].ch[1] = clip

\* C5 as stated: Track[Stack[Track[Track[Clip]]]] under the root stack
\* simplifies to Track[Track[Clip]], one inner wrapper removed and not all.
C5_OneWrapperRemoved ==
    \A clip \in PlainClips :
        Simplified /\ sKind = "Timeline" /\ sWork = <<ShapeB(clip)>> =>
            /\ Len(RootOut.ch) = 1
            /\ RootOut.ch[1].type = "Track"
            /\ Len(RootOut.ch[1].ch) = 1
            /\ RootOut.ch[1].ch[1].type = "Track"
            /\ RootOut.ch[1].ch[1].ch = <<clip>>

\* C5 amended: Track[Stack[Track[Track[Clip]]]] under the root stack
\* simplifies to exactly Track[Clip]: the top-level Track is kept and every
\* inner wrapper is removed.
C5_AllWrappersRemoved ==
    \A clip \in PlainClips :
        Simplified /\ sKind = "Timeline" /\ sWork = <<ShapeB(clip)>> =>
            RootOut.ch = <<TrackOf(clip)>>

C5_Witness ==
    \E clip \in PlainClips :
        /\ Simplified /\ sKind = "Timeline"
        /\ sWork = <<ShapeB(clip)>>
        /\ RootOut.ch = <<TrackOf(clip)>>

----------------------------------------------------------------------------
(* Properties of write_to_file.                                            *)

\* The steps of a write that are behind it, in their order.
Steps ==
    <<"pre", "validate", "gather", "tracks", "timecode", "post", "closed", "read">>

StepIndex(step) == CHOOSE i \in 1..Len(Steps) : Steps[i] = step

\* The step has run: the write is past it, or it is the one that raised.
HasRun(step) ==
    /\ wPhase # "build"
    /\ IF wPhase = "raised" THEN StepIndex(wAt) >= StepIndex(step)
       ELSE StepIndex(wPhase) > StepIndex(step)

HasPassed(step) == HasRun(step) /\ ~(wPhase = "raised" /\ wAt = step)

\* The children of the timeline's tracks, one after the other.
WChildren == find_children(wTl)

\* The rate every duration is measured against: the timeline's own, 0 when
\* the timeline cannot give one.
TimelineRate == TimelineDuration(wTl)[2]

\* A rate that is required fails when it is absent or not the timeline's.
RateFails(rate) == rate = 0 \/ rate # TimelineRate

\* The checks that fail on one child, counted from its attributes: a Gap
\* owes its duration, a Clip its duration and the two rates of its
\* available range, a Transition its duration and five metadata keys.
FailedOn(child) ==
    IF child.type = "Gap" THEN
        IF RateFails(WDuration(child)[2]) THEN 1 ELSE 0
    ELSE IF child.type = "Clip" THEN
        (IF RateFails(WDuration(child)[2]) THEN 1 ELSE 0)
        + (IF child.ar = NoRange \/ RateFails(child.ard) THEN 1 ELSE 0)
        + (IF child.ar = NoRange \/ RateFails(child.ars) THEN 1 ELSE 0)
    ELSE IF child.type = "Transition" THEN
        (IF RateFails(WDuration(child)[2]) THEN 1 ELSE 0)
        + Cardinality(TransitionKeys \ child.tmeta)
    ELSE 0

FailedChecks ==
    (IF TimelineRate = 0 THEN 1 ELSE 0)
    + SumSeq([i \in 1..Len(WChildren) |-> FailedOn(WChildren[i])])

\* A clip on a generator reference of a kind the writer does not support.
UnsupportedGenerator ==
    \E i \in 1..Len(WChildren) :
        /\ WChildren[i].type = "Clip"
        /\ WChildren[i].ref = "generator"
        /\ WChildren[i].gkind # "Slug"

ValidationOutcome ==
    IF FailedChecks = 0 THEN HasPassed("validate")
    ELSE /\ wPhase = "raised" /\ wAt = "validate"
         /\ wErr = "AAFValidationError"
         /\ Len(wLines) = FailedChecks

\* C6 as stated: validate_metadata runs every check on every Clip, Gap and
\* Transition; when a check fails there is one AAFValidationError with one
\* line per failed check, and when none fails nothing is raised.
C6_EveryFailureReported == HasRun("validate") => ValidationOutcome

\* C6 amended: the same, for a timeline without a clip on a generator
\* reference of a kind other than Slug (for which the precheck stops with
\* NotSupportedError).
C6_EveryFailureReportedIfSupported ==
    HasRun("validate") /\ ~UnsupportedGenerator => ValidationOutcome

\* Several checks have failed and each has its line.
C6_Witness ==
    /\ wPhase = "raised" /\ wAt = "validate"
    /\ ~UnsupportedGenerator
    /\ FailedChecks >= 3
    /\ Len(wLines) = FailedChecks

\* The clips that get a mob ID: those that are not gap-like.
ResolvedClips ==
    {p \in {<<t, i>> : t \in 1..Len(wTl), i \in 1..MaxItems} :
        /\ p[2] <= Len(wTl[p[1]].ch)
        /\ wTl[p[1]].ch[p[2]].type = "Clip"
        /\ _is_considered_gap(wTl[p[1]].ch[p[2]]) = "no"}

ClipAt(p) == wTl[p[1]].ch[p[2]]

ClipsWith(mob_id) == {p \in DOMAIN wIds : wIds[p] = mob_id}

\* The mobs of a class in the output that were made for a clip mob ID.
MobsOf(cls, mob_id) ==
    {i \in 1..Len(wMobs) : wMobs[i].cls = cls /\ wMobs[i].key = mob_id}

\* How many SourceClips of the composition mob point at a mob, and how
\* many SourceClips in the slots of the other mobs do.
RECURSIVE CountRefs(_, _)
CountRefs(components, mob_id) ==
    IF components = <<>> THEN 0
    ELSE (IF Head(components).type = "SourceClip" /\ Head(components).mob = mob_id
             THEN 1 ELSE 0)
         + CountRefs(Tail(components), mob_id)

CompositionRefs(mob_id) ==
    SumSeq([s \in 1..Len(wSlots) |-> CountRefs(wSlots[s].components, mob_id)])

MobRefs(mob_id) ==
    SumSeq([i \in 1..Len(wMobs) |->
              CountRefs([s \in 1..Len(wMobs[i].slots) |-> wMobs[i].slots[s].seg],
                        mob_id)])

\* Essence is copied out of a referenced .aaf file for some clip.
CopiesFromAaf ==
    /\ wOpt.embed_essence
    /\ \E p \in ResolvedClips :
          ClipAt(p).ref # "missing" /\ ClipAt(p).suffix = "aaf"

Deduplicated ==
    \A p \in DOMAIN wIds :
        /\ Cardinality({i \in 1..Len(wMobs) :
                           wMobs[i].cls = "MasterMob"
                           /\ wMobs[i].mob_id = wIds[p]}) = 1
        /\ Cardinality(MobsOf("TapeMob", wIds[p])) = 1
        /\ CompositionRefs(wIds[p]) = Cardinality(ClipsWith(wIds[p]))
        /\ \A i \in MobsOf("TapeMob", wIds[p]) :
              MobRefs(wMobs[i].mob_id) = Cardinality(ClipsWith(wIds[p]))

MetadataId(clip) ==
    IF clip.sid # 0 THEN clip.sid
    ELSE IF clip.rmob # 0 THEN clip.rmob
    ELSE clip.rsid

FileId(clip) ==
    IF clip.ref = "external" /\ clip.suffix = "aaf" THEN clip.fmob ELSE 0

KnownId(clip) ==
    IF wOpt.prefer_file_mob_id /\ FileId(clip) # 0 THEN FileId(clip)
    ELSE IF MetadataId(clip) # 0 THEN MetadataId(clip)
    ELSE FileId(clip)

\* An ID made by MobID.new(): none that a clip or a file carries, and no
\* other clip's.
IsFresh(p) ==
    /\ wIds[p] >= FirstNewId
    /\ \A q \in DOMAIN wIds : q # p => wIds[q] # wIds[p]

\* The SourceClip the composition mob got for the clip at p points at mob_id.
UsedMobId(p) ==
    LET slot == Cardinality({t \in 1..p[1] : Len(wTl[t].ch) > 0})
    IN  wSlots[slot].components[
            p[2] - Cardinality({i \in 1..p[2] :
                                   /\ wTl[p[1]].ch[i].type = "Transition"
                                   /\ aaf_transition(wTl[p[1]].ch[i]) = <<>>})].mob

C9_NoIdFromMetadata ==
    HasPassed("gather") /\ wOpt.use_empty_mob_ids =>
        \A p \in DOMAIN wIds :
            MetadataId(ClipAt(p)) # 0 => wIds[p] # MetadataId(ClipAt(p))

----------------------------------------------------------------------------
(* Properties of write_to_file followed by read_from_file.                 *)

OnlyClipsAndGaps ==
    \A t \in 1..Len(wTl) : \A i \in 1..Len(wTl[t].ch) :
        wTl[t].ch[i].type \in {"Clip", "Gap"}

\* The tracks of what was read equal those of the written timeline in
\* kind and number of children, and every clip in its source range.
SameTracks(written, read) ==
    /\ read.type = "Timeline"
    /\ Len(read.ch[1].ch) = Len(written)
    /\ \A t \in 1..Len(written) :
          /\ read.ch[1].ch[t].type = "Track"
          /\ read.ch[1].ch[t].kind = written[t].kind
          /\ Len(read.ch[1].ch[t].ch) = Len(written[t].ch)
          /\ \A i \in 1..Len(written[t].ch) :
                written[t].ch[i].type = "Clip" =>
                    /\ read.ch[1].ch[t].ch[i].type = "Clip"
                    /\ read.ch[1].ch[t].ch[i].sr = written[t].ch[i].sr

\* C1 as stated: a timeline whose tracks hold only clips and gaps is read
\* back with the same sequence of track kinds, the same number of children
\* in each track and the same source range for every clip.
C1_RoundTrip ==
    wPhase = "read" /\ OnlyClipsAndGaps => SameTracks(wTl, wRead)

\* The timelines and calls that a file can stand for: no essence is
\* embedded and no hook runs, every track holds a clip, every clip has a
\* source range of its own and an external reference with an available
\* range that is not empty, and the clips that are given one mob ID have
\* one available range.
RoundTripInput ==
    /\ OnlyClipsAndGaps
    /\ ~wOpt.embed_essence
    /\ wOpt.pre_hook = "none" /\ wOpt.post_hook = "none"
    /\ \A t \in 1..Len(wTl) :
          /\ \E i \in 1..Len(wTl[t].ch) : wTl[t].ch[i].type = "Clip"
          /\ \A i \in 1..Len(wTl[t].ch) :
                wTl[t].ch[i].type = "Clip" =>
                    /\ wTl[t].ch[i].ref = "external"
                    /\ wTl[t].ch[i].sr # NoRange
                    /\ wTl[t].ch[i].ar # NoRange
                    /\ wTl[t].ch[i].ar[2] # 0
    /\ \A p \in DOMAIN wIds : \A q \in DOMAIN wIds :
          wIds[p] = wIds[q] => ClipAt(p).ar = ClipAt(q).ar

\* C1 amended: a timeline whose tracks hold only clips and gaps, each
\* track at least one clip, each clip with its own source range and a
\* non-empty available range that it shares with the clips of the same mob
\* ID, written without embedded essence and hooks, is read back with the
\* same sequence of track kinds, the same number of children in each track
\* and the same source range for every clip.
C1_RoundTripOfClips ==
    wPhase = "read" /\ RoundTripInput => SameTracks(wTl, wRead)

\* A sound track of a gap and a clip cut out of the middle of its media
\* has been written and read back.
C1_Witness ==
    /\ wPhase = "read"
    /\ RoundTripInput
    /\ \E t \in 1..Len(wTl) :
          /\ wTl[t].kind = "Audio"
          /\ Len(wTl[t].ch) = 2
          /\ wTl[t].ch[1].type = "Gap"
          /\ wTl[t].ch[2].sr # wTl[t].ch[2].ar

----------------------------------------------------------------------------
(* Properties of read_from_file.                                           *)

\* C10: the mob cache is empty when a read starts transcribing and empty
\* again when the read has ended, by a return or by an exception, and a
\* read never finds the entry of an earlier read.
C10_CacheScopedToRead ==
    /\ rPhase = "transcribe" /\ rPos = 0 => rCache = NoMap
    /\ rPhase \in {"returned", "raised"} => rCache = NoMap
    /\ rPhase \in {"pre", "transcribe"} =>
          \A id \in DOMAIN rCache : rCache[id] = rReads

----------------------------------------------------------------------------
(* Properties of the failures of write_to_file.                            *)

\* The file is open inside the block of "with aaf2.open(filepath, 'w')".
FileOpen ==
    wPhase \in {"pre", "validate", "gather", "tracks", "timecode", "post"}

\* C12: when the pre-write or the post-write hook raises, write_to_file
\* ends with that error and the file closed; after a failure of the
\* pre-write hook nothing is validated and no mob is created.
C12_HookFailureAborts ==
    /\ HasRun("pre") /\ wOpt.pre_hook = "raises" =>
          /\ wPhase = "raised" /\ wAt = "pre" /\ wErr = "HookError"
          /\ ~FileOpen
          /\ wLines = <<>> /\ wIds = NoMap
          /\ wMobs = <<>> /\ wSlots = <<>>
    /\ HasRun("post") /\ wOpt.post_hook = "raises" =>
          /\ wPhase = "raised" /\ wAt = "post" /\ wErr = "HookError"
          /\ ~FileOpen

\* The timeline holds a construct the writer has no AAF object for: a
\* track of another kind than Video and Audio, a child that is none of the
\* schema's composables, a generator that is no Slug, or a transition that
\* is no SMPTE_Dissolve.
HasUnsupportedConstruct ==
    \E t \in 1..Len(wTl) :
        \/ wTl[t].kind \notin {"Video", "Audio"}
        \/ \E i \in 1..Len(wTl[t].ch) :
              \/ wTl[t].ch[i].type \notin {"Clip", "Gap", "Transition"}
              \/ wTl[t].ch[i].type = "Clip" /\ wTl[t].ch[i].ref = "generator"
                    /\ wTl[t].ch[i].gkind # "Slug"
              \/ wTl[t].ch[i].type = "Transition"
                    /\ wTl[t].ch[i].ttype # "SMPTE_Dissolve"

\* C13: a write that meets a construct without an AAF equivalent fails
\* with an error and never leaves the construct out silently: no write of
\* a timeline with such a construct completes.
C13_UnsupportedFails ==
    wPhase = "closed" => ~HasUnsupportedConstruct

\* C14: a completed write leaves exactly one composition mob, whose slots
\* are one per track of the timeline plus exactly one timecode slot, the
\* primary one (PhysicalTrackNumber 1); also when tracks are empty or absent.
C14_SlotPerTrackAndTimecode ==
    wPhase = "closed" =>
        /\ Cardinality({m \in 1..Len(wMobs) :
                           wMobs[m].cls = "CompositionMob"}) = 1
        /\ Len(wSlots) = Len(wTl) + 1
        /\ Cardinality({s \in 1..Len(wSlots) :
                           wSlots[s].kind = "timecode"}) = 1
        /\ \A s \in 1..Len(wSlots) :
               wSlots[s].kind = "timecode" => wSlots[s].phys = 1

\* The pre-write hook has failed on a timeline that has a clip to write.
C12_Witness ==
    /\ wPhase = "raised"
    /\ wOpt.pre_hook = "raises"
    /\ wErr = "HookError"
    /\ \E t \in 1..Len(wTl) : \E i \in 1..Len(wTl[t].ch) :
          wTl[t].ch[i].type = "Clip"

----------------------------------------------------------------------------
(* Properties of the extension points.                                     *)

\* C11: at each of the four extension points the hook registered under
\* the point's own name is run if and only if there is one, and without
\* one the step raises nothing and leaves the timeline as it was.
C11_OwnHookOnly ==
    hPhase = "done" =>
        /\ hOut.ran = hPoint <=> hReg[hPoint] # "none"
        /\ hReg[hPoint] = "none" =>
              /\ hOut.raised = "none"
              /\ hOut.ran = "none"
              /\ hOut.tl = IF hPoint = HOOK_PRE_READ_TRANSCRIBE THEN "None"
                           ELSE "input"

----------------------------------------------------------------------------
(* Properties of _transcribe on the components of a slot.                  *)

\* A SourceClip whose mob is not in the file, or whose mob has no slot
\* with the clip's slot ID.
IsUnresolvable(item) ==
    /\ item.type = "SourceClip"
    /\ \/ MobIndex(TMobs, item.mob) = 0
       \/ SlotIndex(TMobs[MobIndex(TMobs, item.mob)].slots, item.slot_id) = 0

\* The components directly inside a component.
Inside(item) ==
    IF item.type = "Selector" THEN <<item.selected>> \o item.alternates
    ELSE IF item.type \in {"Sequence", "OperationGroup"} THEN item.components
    ELSE <<>>

RECURSIVE HasUnresolvable(_)
HasUnresolvable(item) ==
    \/ IsUnresolvable(item)
    \/ \E i \in 1..Len(Inside(item)) : HasUnresolvable(Inside(item)[i])

\* Some Selector of the graph has an unresolvable SourceClip as its
\* Selected component.
RECURSIVE SelectedUnresolvable(_)
SelectedUnresolvable(item) ==
    \/ item.type = "Selector" /\ IsUnresolvable(item.selected)
    \/ \E i \in 1..Len(Inside(item)) : SelectedUnresolvable(Inside(item)[i])

\* The same graph with every unresolvable SourceClip pointed at slot 1 of
\* the Master mob.
RECURSIVE Resolvable(_)
Resolvable(item) ==
    IF IsUnresolvable(item) THEN [item EXCEPT !.mob = 1, !.slot_id = 1]
    ELSE IF item.type = "Selector"
        THEN [item EXCEPT
                 !.selected = Resolvable(item.selected),
                 !.alternates = [i \in 1..Len(item.alternates) |->
                                    Resolvable(item.alternates[i])]]
    ELSE [item EXCEPT
             !.components = [i \in 1..Len(item.components) |->
                                Resolvable(item.components[i])]]

\* An unresolvable SourceClip has become a Gap from 0 of the clip's length:
\* the clip itself, and each one that is a component of a Sequence.
GapInPlace ==
    /\ IsUnresolvable(tItem) => tOut = Returned(Gap(tItem.length))
    /\ tItem.type = "Sequence" /\ tOut.raised = "none" =>
          \A i \in 1..Len(tItem.components) :
              IsUnresolvable(tItem.components[i]) =>
                  tOut.result.ch[i] = Gap(tItem.components[i].length)

C16_MutedSelector ==
    tPhase = "done" /\ tItem.type = "Selector"
        /\ tItem.selected.type \in {"Filler", "ScopeReference"} =>
        IF tItem.has_alternates /\ Len(tItem.alternates) = 1
            THEN LET alternate == _transcribe(TMobs, tItem.alternates[1])
                 IN  tOut = IF alternate.raised # "none" THEN alternate
                            ELSE Returned([alternate.result EXCEPT
                                              !.en = FALSE])
            ELSE tOut = Failed("AAFAdapterError")

----------------------------------------------------------------------------
(* Properties of the effect of an OperationGroup.                          *)

\* The effect of a Motion Control time warp with a SpeedRatio is there.
LinearCase ==
    /\ ePhase = "done"
    /\ eGroup.is_time_warp /\ eGroup.name = "Motion Control" /\ eGroup.has_ratio

\* The SpeedRatio reads "n/d" with n not 0, and what d/n is then.
IsFraction(ratio) ==
    /\ Len(split(ratio, <<>>)) = 2
    /\ IsNumeral(split(ratio, <<>>)[1]) /\ IsNumeral(split(ratio, <<>>)[2])
    /\ float(split(ratio, <<>>)[1]) # 0

Inverted(ratio) ==
    Quotient(float(split(ratio, <<>>)[2]), float(split(ratio, <<>>)[1]))

\* The slope between two control points at different times.
Slope(points) ==
    Quotient(points[2].value - points[1].value, points[2].time - points[1].time)

\* What the claim says of three or more and of exactly two control points.
ByControlPoints ==
    /\ Len(eGroup.points) >= 3 => eOut = Made(Effect("TimeEffect", NoScalar))
    /\ Len(eGroup.points) = 2 /\ eGroup.points[2].time # eGroup.points[1].time =>
          /\ eOut.raised = "none"
          /\ eOut.effect.time_scalar = Slope(eGroup.points)

\* C17: three or more control points give a TimeEffect without scalar, two
\* give the slope between them whatever the SpeedRatio, fewer than two
\* give d/n for a SpeedRatio "n/d" and 1/ratio for any other.
C17_ScalarByControlPoints ==
    LinearCase =>
        /\ ByControlPoints
        /\ Len(eGroup.points) < 2 =>
              /\ IsFraction(eGroup.ratio) =>
                    /\ eOut.raised = "none"
                    /\ eOut.effect.time_scalar = Inverted(eGroup.ratio)
              /\ IsNumeral(eGroup.ratio) /\ float(eGroup.ratio) # 0 =>
                    /\ eOut.raised = "none"
                    /\ eOut.effect.time_scalar = Quotient(1, float(eGroup.ratio))

\* C17 as the code has it: with fewer than two control points a SpeedRatio
\* that reads as the group's length gives 0, and only another one 1/ratio.
C17_ScalarByControlPointsOrLength ==
    LinearCase =>
        /\ ByControlPoints
        /\ Len(eGroup.points) < 2 =>
              /\ IsFraction(eGroup.ratio) =>
                    /\ eOut.raised = "none"
                    /\ eOut.effect.time_scalar = Inverted(eGroup.ratio)
              /\ eGroup.ratio = str(eGroup.length) =>
                    /\ eOut.raised = "none"
                    /\ eOut.effect.time_scalar = <<0, 1>>
              /\ IsNumeral(eGroup.ratio) /\ float(eGroup.ratio) # 0
                    /\ eGroup.ratio # str(eGroup.length) =>
                    /\ eOut.raised = "none"
                    /\ eOut.effect.time_scalar = Quotient(1, float(eGroup.ratio))

\* Two control points have given a slope that the SpeedRatio contradicts.
C17_Witness ==
    /\ LinearCase
    /\ Len(eGroup.points) = 2
    /\ eGroup.ratio = <<"2">>
    /\ eOut = Made(Effect("LinearTimeWarp", <<-2, 1>>))

\* The inputs for which the scalar comes out as 0: a SpeedRatio that reads
\* as the group's length or as "n/0", two control points of one value.
ZeroScalar ==
    \/ /\ Len(eGroup.points) < 2
       /\ \/ eGroup.ratio = str(eGroup.length)
          \/ IsFraction(eGroup.ratio) /\ float(split(eGroup.ratio, <<>>)[2]) = 0
    \/ /\ Len(eGroup.points) = 2
       /\ eGroup.points[2].value = eGroup.points[1].value

\* C18: a SpeedRatio that reads as the group's length gives the scalar 0;
\* a scalar of 0, however it came about, gives a FreezeFrame and never a
\* LinearTimeWarp, and any other scalar never a FreezeFrame.
C18_FreezeFrameIffZero ==
    LinearCase /\ Len(eGroup.points) <= 2 /\ eOut.raised = "none" =>
        /\ eOut.effect.schema \in {"FreezeFrame", "LinearTimeWarp"}
        /\ eOut.effect.schema = "FreezeFrame" <=> ZeroScalar
        /\ eOut.effect.schema = "FreezeFrame" <=> eOut.effect.time_scalar = <<0, 1>>
        /\ Len(eGroup.points) < 2 /\ eGroup.ratio = str(eGroup.length) =>
              eOut.effect.time_scalar = <<0, 1>>

\* A group of length 2 with the SpeedRatio "2" and no control point has
\* become a FreezeFrame.
C18_Witness ==
    /\ LinearCase
    /\ eGroup.points = <<>>
    /\ eGroup.length = MaxLength - 1
    /\ eGroup.ratio = str(MaxLength - 1)
    /\ eOut = Made(Effect("FreezeFrame", <<0, 1>>))

----------------------------------------------------------------------------
(* Properties of _attach_markers.                                          *)

\* The markers the tracks of the timeline had before the pass.
MarkersBefore ==
    UNION {{mIn.tracks[c].mk[j] : j \in 1..Len(mIn.tracks[c].mk)} :
              c \in 1..Len(mIn.tracks)}

\* The track a marker was found on.
FoundOn(marker) ==
    CHOOSE c \in 1..Len(mIn.tracks) :
        \E j \in 1..Len(mIn.tracks[c].mk) : mIn.tracks[c].mk[j] = marker

OnTrack(tl, k, marker) ==
    \E j \in 1..Len(tl.tracks[k].mk) : tl.tracks[k].mk[j] = marker

OnStack(tl, marker) == \E j \in 1..Len(tl.mk) : tl.mk[j] = marker

\* The three ways a marker fails to reach an item.
NoTargetTrack(marker) == TargetTrack(mIn.tracks, marker) = 0

Search(marker) ==
    _find_child_at_time(mIn.tracks[TargetTrack(mIn.tracks, marker)],
                        marker.start)

CannotCarry(marker) ==
    /\ ~NoTargetTrack(marker)
    /\ Search(marker).raised = "none"
    /\ \/ Search(marker).at = 0
       \/ mIn.tracks[TargetTrack(mIn.tracks, marker)].ch[Search(marker).at].type
             = "Transition"

CannotCompute(marker) ==
    /\ ~NoTargetTrack(marker)
    /\ Search(marker).raised = "CannotComputeAvailableRangeError"

Reattached ==
    UNION {UNION {{<<k, i, mOut.tracks[k].ch[i].mk[j]>> :
                      j \in 1..Len(mOut.tracks[k].ch[i].mk)} :
                  i \in 1..Len(mOut.tracks[k].ch)} :
           k \in 1..Len(mOut.tracks)}

\* The marker as it was before the pass.
Original(marker) ==
    CHOOSE before \in MarkersBefore : before.name = marker.name

\* What the claim says of where a reattached marker is, but for its start.
OnOverlappingItem(at) ==
    LET before == Original(at[3])
        track  == mIn.tracks[at[1]]
    IN  /\ at[1] = TargetTrack(mIn.tracks, before)
        /\ Contains(RangeInParent(track, at[2]), before.start)
        /\ at[3].dur = before.dur
        /\ child_at_time(track, before.start) # 0
        /\ track.ch[child_at_time(track, before.start)].type = "Transition" =>
              \/ at[2] = child_at_time(track, before.start) - 1
              \/ at[2] = child_at_time(track, before.start) + 1

\* C20: a reattached marker is on the item of its target track that
\* overlaps its time, a sibling of the Transition when the time falls on
\* one, with its duration unchanged and its start the time less the start
\* of the item in the track.
C20_ReattachedAtItemOffset ==
    mPhase = "done" =>
        \A at \in Reattached :
            /\ OnOverlappingItem(at)
            /\ at[3].start = Original(at[3]).start
                             - RangeInParent(mIn.tracks[at[1]], at[2])[1]

\* C20 as the code has it: the start is the time less the start of the
\* item in the track plus the start of the item's own source range.
C20_ReattachedInItemTime ==
    mPhase = "done" =>
        \A at \in Reattached :
            /\ OnOverlappingItem(at)
            /\ at[3].start = Original(at[3]).start
                             - RangeInParent(mIn.tracks[at[1]], at[2])[1]
                             + mIn.tracks[at[1]].ch[at[2]].start

\* A marker whose time falls on a Transition is on the clip after it.
C20_Witness ==
    /\ mPhase = "done"
    /\ \E at \in Reattached :
          /\ mIn.tracks[at[1]].ch[at[2]].type = "Clip"
          /\ at[2] > 1
          /\ child_at_time(mIn.tracks[at[1]], Original(at[3]).start) = at[2] - 1
          /\ mIn.tracks[at[1]].ch[at[2] - 1].type = "Transition"

----------------------------------------------------------------------------
(* Properties of read_from_file on a graph of mobs.                        *)

IsTimelineOf(value, m) == value.type = "Timeline" /\ value.name = MobName(m)

\* C21: read_from_file returns a single Timeline exactly when simplify is
\* true and exactly one mob was selected for transcription; in every other
\* case it returns a SerializableCollection that holds one Timeline for
\* each selected mob, in the order of the selection.
C21_TimelineOrCollection ==
    fPhase = "returned" =>
        IF fOpt.simplify /\ Len(fTop) = 1
           THEN IsTimelineOf(fOut.value, fTop[1])
           ELSE /\ fOut.value.type = "Collection"
                /\ Len(fOut.value.ch) = Len(fTop)
                /\ \A i \in 1..Len(fTop) : IsTimelineOf(fOut.value.ch[i], fTop[i])

C21_Witness ==
    /\ fPhase = "returned"
    /\ fOpt.simplify
    /\ Len(fTop) = 1
    /\ fOut.value.type = "Timeline"

C21_WitnessCollection ==
    /\ fPhase = "returned"
    /\ Len(fTop) = 2
    /\ fOut.value.type = "Collection"

\* C22: within one read every Master or Composition mob ID is transcribed at
\* most once: the first request for it builds the timeline, and every later
\* request, from a SourceClip or from the list of selected mobs, takes the
\* timeline from the cache.
C22_TranscribedAtMostOnce ==
    \A m \in DOMAIN fCount : fCount[m] <= 1

\* The mobs whose transcription is under way.
UnderWay == {fStack[i].mob : i \in 1..Len(fStack)}

\* C23: transcription ends on every graph of mobs, also on one where a mob
\* is reached again through the SourceClips of its own slots: the request
\* for a mob whose transcription is under way finds the mob in the cache,
\* and no read ends because the recursion has no end.
C23_ReentrantRequestIsHit ==
    /\ fOut.err # "RecursionError"
    /\ Requesting /\ Requested \in UnderWay => Requested \in fCache

\* The steps of a read with the given arguments that returns.
ReadSteps(opt) ==
    <<"pre_read_hook", "_transcribe", "post_read_hook", "_fix_transitions">>
    \o (IF opt.attach_markers THEN <<"_attach_markers">> ELSE <<>>)
    \o (IF opt.simplify THEN <<"_simplify">> ELSE <<>>)

IsPrefix(s, t) == Len(s) <= Len(t) /\ s = SubSeq(t, 1, Len(s))

----------------------------------------------------------------------------
(* Properties of the passes over a whole tree.                             *)

RECURSIVE FixedAsClaimed(_, _)
\* The tree after the pass against the tree before it, level by level: in
\* a Track an item behind a Transition starts later and is shorter by that
\* transition's in_offset, an item before a Transition is shorter by that
\* transition's out_offset; every other child keeps its range, and nothing
\* but ranges differs.
FixedAsClaimed(before, after) ==
    /\ [after EXCEPT !.sr = before.sr, !.ch = before.ch] = before
    /\ Len(after.ch) = Len(before.ch)
    /\ \A c \in 1..Len(before.ch) :
        LET b == before.ch[c]
            a == after.ch[c]
            in_track == before.type = "Track"
            pre == in_track /\ c > 1 /\ before.ch[c - 1].type = "Transition"
            post == in_track /\ c < Len(before.ch)
                    /\ before.ch[c + 1].type = "Transition"
            range == trimmed_range(b)
        IN  /\ IF b.type = "Transition" THEN a = b
               ELSE IF pre /\ post
                   THEN a.sr = <<range[1] + before.ch[c - 1].inoff,
                                 range[2] - before.ch[c - 1].inoff
                                          - before.ch[c + 1].outoff>>
               ELSE IF pre
                   THEN a.sr = <<range[1] + before.ch[c - 1].inoff,
                                 range[2] - before.ch[c - 1].inoff>>
               ELSE IF post
                   THEN a.sr = <<range[1], range[2] - before.ch[c + 1].outoff>>
               ELSE a.sr = b.sr
            /\ FixedAsClaimed(b, a)

\* C25: after the transition fix-up, in every track at any depth, an item
\* right behind a Transition has its start moved on and its duration cut by
\* that transition's in_offset, an item right before a Transition has its
\* duration cut by that transition's out_offset, an item between two
\* Transitions both; Transitions and items next to no Transition are as
\* they were.
C25_ItemsGiveUpOffsets ==
    pPhase = "fixed" => FixedAsClaimed(pIn, pOut.value)

\* A nested Track between two Transitions, with a Transition of its own
\* before its clip.
C25_Witness ==
    /\ pPhase = "fixed"
    /\ pIn.ch[1].ch[1].ch =
          <<PTransition, Node("Track", <<PTransition, PLeaf>>), PTransition>>
    /\ pOut.value.ch[1].ch[1].ch[2].sr = <<1, 2>>
    /\ pOut.value.ch[1].ch[1].ch[2].ch[2].sr = <<1, 3>>

RECURSIVE InStacks(_)
\* The tree with every Track below it that is not the child of a Stack
\* put, where it stands, into a Stack of its own.
InStacks(node) ==
    [node EXCEPT !.ch =
        [c \in 1..Len(node.ch) |->
            IF node.ch[c].type = "Track" /\ node.type # "Stack"
                THEN Node("Stack", <<InStacks(node.ch[c])>>)
                ELSE InStacks(node.ch[c])]]

\* C27: _stackify_nested_groups returns a copy in which every Track nested
\* at any depth below a top-level track is the child of a Stack: every bare
\* nested Track is replaced, at the place it had among its siblings, by a
\* Stack that holds only it, and all other children keep their order.
C27_NestedTracksInStacks ==
    pPhase = "stackified" =>
        /\ pOut.raised = "none"
        /\ pOut.value =
              [pIn EXCEPT !.ch[1].ch =
                  [t \in 1..Len(pIn.ch[1].ch) |-> InStacks(pIn.ch[1].ch[t])]]

RECURSIVE Tagged(_)
\* The node named "X" of a tree ("None" when the tree has none).
Tagged(n) ==
    IF n.name = "X" THEN n
    ELSE IF \E c \in 1..Len(n.ch) : Tagged(n.ch[c]).type # "None"
        THEN Tagged(n.ch[CHOOSE c \in 1..Len(n.ch) : Tagged(n.ch[c]).type # "None"])
    ELSE NoValue

RECURSIVE Kept(_, _)
\* The tree still has a node of the type t that is named "X".
Kept(n, t) ==
    \/ n.name = "X" /\ n.type = t
    \/ \E c \in 1..Len(n.ch) : Kept(n.ch[c], t)

RECURSIVE Carries(_, _, _)
\* Some node of the tree has the effects fx and the markers mk among its own.
Carries(n, fx, mk) ==
    \/ /\ \A i \in 1..Len(fx) : \E j \in 1..Len(n.fx) : n.fx[j] = fx[i]
       /\ \A i \in 1..Len(mk) : \E j \in 1..Len(n.mk) : n.mk[j] = mk[i]
    \/ \E c \in 1..Len(n.ch) : Carries(n.ch[c], fx, mk)

\* The node is of a composition mob and its metadata has user comments.
HasUserComments(n) == n.cls = "CompositionMob" /\ n.uc

C26_WitnessMoved ==
    /\ pPhase = "simplified"
    /\ Tagged(pIn).type = "Track"
    /\ Len(Tagged(pIn).mk) > 0
    /\ ~Kept(pOut.value, "Track")
    /\ Carries(pOut.value, <<>>, Tagged(pIn).mk)

----------------------------------------------------------------------------
(* Properties of the Tracks of _transcribe.                                *)

\* C28: a Track made from a Sequence of the declared length L is returned
\* only when the durations of its children add up to L (a read whose
\* Track would not fit fails instead): a Track of another duration than the
\* declared length is never returned.
C28_TrackHasDeclaredLength ==
    tPhase = "done" /\ tItem.type = "Sequence" /\ tOut.raised = "none" =>
        /\ tOut.result.type = "Track"
        /\ Dur(tOut.result) = tItem.length

----------------------------------------------------------------------------
(* Properties of the markers of a read without attach_markers, and of the  *)
(* bookkeeping of the reattachment pass.                                   *)

\* C29: a read with attach_markers false relocates no marker: every marker
\* is on the track of the event slot that declared it, with the range it
\* was declared with, also when the slot is one of a master mob.
C29_UnattachedMarkersStay ==
    mPhase = "unattached" => mOut.tracks = mIn.tracks /\ mOut.mk = mIn.mk

\* The places of the timeline that own a marker of the name: the stack,
\* a track <<k>>, an item <<k, i>>.
Owners(tl, name) ==
    {<<>> : j \in {j \in 1..Len(tl.mk) : tl.mk[j].name = name}}
    \cup {<<k>> : k \in {k \in 1..Len(tl.tracks) :
                    \E j \in 1..Len(tl.tracks[k].mk) :
                        tl.tracks[k].mk[j].name = name}}
    \cup UNION {{<<k, i>> : i \in {i \in 1..Len(tl.tracks[k].ch) :
                    \E j \in 1..Len(tl.tracks[k].ch[i].mk) :
                        tl.tracks[k].ch[i].mk[j].name = name}} :
                k \in 1..Len(tl.tracks)}

\* How many markers of the name a list holds.
CountOf(markers, name) ==
    Cardinality({j \in 1..Len(markers) : markers[j].name = name})

\* A pass that ends without an exception drops no marker and makes no
\* second one of any: each has one owner, which holds it once.
MarkersConserved ==
    mPhase = "done" /\ mOut.raised = "none" =>
        \A marker \in MarkersBefore :
            /\ Cardinality(Owners(mOut, marker.name)) = 1
            /\ CountOf(mOut.mk, marker.name)
               + SumSeq([k \in 1..Len(mOut.tracks) |->
                    CountOf(mOut.tracks[k].mk, marker.name)
                    + SumSeq([i \in 1..Len(mOut.tracks[k].ch) |->
                         CountOf(mOut.tracks[k].ch[i].mk, marker.name)])]) = 1

\* C30: the reattachment pass conserves the markers and moves each at most
\* once: every marker that was on a track before the pass has exactly one
\* owner in the timeline after it, and no marker that the pass has put
\* somewhere is taken up and transformed again later in the same pass.
C30_ConservedAndMovedOnce ==
    /\ MarkersConserved
    /\ \A marker \in MarkersBefore :
          Cardinality({j \in 1..Len(mOut.picked) :
                          mOut.picked[j] = marker.name}) <= 1

============================================================================
